---- MODULE Spec2Model ----
(***************************************************************************)
(* go-junos: the configuration lifecycle of the Junos session facade       *)
(* (src/junos.go) against one Junos device shared by several sessions.     *)
(*                                                                         *)
(* The client operations (Lock, Unlock, Commit, CommitCheck, Config,       *)
(* LoadConfig, Rescue, RollbackConfig, ConfigDiff) are operators           *)
(* translated from the Go methods: each takes the device state, the        *)
(* calling session, the call's arguments and one transport-failure flag    *)
(* per RPC it may send, and yields the device state after the call, the    *)
(* error returned and the RPCs sent, in order.                             *)
(*                                                                         *)
(* The device itself (candidate and active configuration, rollback         *)
(* history, rescue slot, candidate lock) is not code of the repository:    *)
(* it is modelled from the data model of the specification (the Dev*       *)
(* operators).  A transport failure is modelled as the request never       *)
(* reaching the device.                                                    *)
(***************************************************************************)
EXTENDS Naturals, Integers, Sequences, FiniteSets, TLC

VARIABLES dev, last, facts, space

vars == <<dev, last, facts, space>>

(***************************************************************************)
(* Bounds and universes.                                                   *)
(***************************************************************************)
\* Rollback slots 1..MaxHistory are retained beside the active slot 0.
MaxHistory == 2

\* The most routing engines a multi-routing-engine reply reports.
MaxRE == 2

\* The longest package comment, in pieces (see Pieces).
MaxComment == 4

\* The longest confirm-timeout, in minutes, CommitConfirm is called with.
MaxDelay == 2

\* NAT rules configured on a device.
MaxRules == 2

\* The sessions opened against the one device.
Sessions == {"A", "B"}

NoSession == "none"

\* Configuration statements.  "bad" loads but never passes commit validation.
Stmts == {"a", "b", "bad"}

\* Go's nil error.
NoErr == "nil"

(***************************************************************************)
(* Go values handed to the API.  A Go string is a sequence of lines (its   *)
(* text split at "\n"); a []string is a sequence of such strings.          *)
(***************************************************************************)
GoString(s) == [type |-> "string", s |-> s, ss |-> <<>>]

GoStrings(ss) == [type |-> "[]string", s |-> <<>>, ss |-> ss]

GoInt == [type |-> "int", s |-> <<>>, ss |-> <<>>]

UrlPath == <<"ftp://host/a.conf">>

FilePath == <<"/tmp/a.conf">>

\* The payloads: inline text, a local file, a URL, a rejected text, a []string
\* and a value of another type.
Payloads ==
    { GoString(<<"a">>), GoString(<<"bad">>), GoString(<<"garbage">>),
      GoString(FilePath), GoString(UrlPath),
      GoStrings(<< <<"a">>, <<"bad">> >>), GoInt }

\* The format tags: the three the API documents and one it does not.
Formats == {"set", "text", "xml", "json"}

\* The <<path, format>> pairs the actions call Config with.  The three documented
\* formats differ only in the format attribute of the rendered request, and every
\* path renders the same request under an undocumented format.
ConfigInputs ==
    { <<p, "set">> : p \in { GoString(<<"a">>), GoString(<<"garbage">>), GoString(UrlPath),
                             GoStrings(<< <<"a">>, <<"bad">> >>), GoInt } }
        \cup { <<GoString(<<"a">>), "json">> }

\* The <<path, format>> pairs the actions call LoadConfig with: a readable local
\* file and a URL, and an undocumented format.
LoadConfigInputs == { <<FilePath, "set">>, <<UrlPath, "set">>, <<FilePath, "json">> }

\* strings.Contains(path, "tp://")
ContainsTp(s) == \E i \in 1..Len(s) : s[i] \in {"ftp://host/a.conf", "http://host/a.conf"}

\* ioutil.ReadFile(path): the local files of the host running the client.
ReadFile(s) ==
    IF s = FilePath
    THEN [data |-> <<"a">>, err |-> NoErr]
    ELSE [data |-> <<>>, err |-> "open: no such file or directory"]

\* strings.Join(list, "\n"): the lines of all elements, in order.
RECURSIVE Join(_)
Join(ss) == IF ss = <<>> THEN <<>> ELSE Head(ss) \o Join(Tail(ss))

(***************************************************************************)
(* The RPC templates (junos.go, var block).  A rendered request is a       *)
(* record; File and String templates of one format are the same wire text. *)
(***************************************************************************)
Cmd(name) == [rpc |-> name, format |-> "", url |-> FALSE, text |-> <<>>, n |-> 0]

rpcCommit == Cmd("commit-configuration")

rpcCommitCheckAsCommit == Cmd("commit-configuration")

\* The confirmed-commit template without its <confirmed/> and <confirm-timeout>.
rpcCommitConfirmUnconfirmed(delay) == Cmd("commit-configuration")

rpcCommitConfirm(delay) == [Cmd("commit-configuration/confirmed") EXCEPT !.n = delay]

rpcCommitCheck == Cmd("commit-configuration/check")

rpcCommitAt(time) == [Cmd("commit-configuration/at") EXCEPT !.text = <<time>>]

rpcReboot == Cmd("request-reboot")

rpcLock == Cmd("lock")

rpcVersion == Cmd("get-software-information")

rpcCommand(cmd) == [Cmd("command") EXCEPT !.format = "text", !.text = <<cmd>>]

rpcCommandXML(cmd) == [Cmd("command") EXCEPT !.format = "xml", !.text = <<cmd>>]

\* An unlock that also discards the candidate's uncommitted changes.
rpcUnlockDiscarding == [Cmd("load-configuration/rollback") EXCEPT !.n = 0]

rpcUnlock == Cmd("unlock")

rpcRescueConfig == Cmd("load-configuration/rescue")

rpcRescueDelete == Cmd("request-delete-rescue-configuration")

rpcRescueSave == Cmd("request-save-rescue-configuration")

rpcRollbackConfigSlotZero(n) == [Cmd("load-configuration/rollback") EXCEPT !.n = 0]

rpcRollbackConfig(n) == [Cmd("load-configuration/rollback") EXCEPT !.n = n]

\* The compare template with the slot fixed to 0 instead of %d.
rpcGetRollbackCompareSlotZero(n) == [Cmd("get-rollback-information/compare") EXCEPT !.n = 0]

rpcGetRollbackCompare(n) == [Cmd("get-rollback-information/compare") EXCEPT !.n = n]

rpcConfigFile(format, data) ==
    [Cmd("load-configuration") EXCEPT !.format = format, !.text = data]

rpcConfigURL(format, path) ==
    [Cmd("load-configuration") EXCEPT !.format = format, !.url = TRUE, !.text = path]

rpcConfigString(format, text) ==
    [Cmd("load-configuration") EXCEPT !.format = format, !.text = text]

\* `var command string` before any template is rendered into it.
EmptyCommand == Cmd("")

(***************************************************************************)
(* The device (external collaborator), from the specification's data       *)
(* model: one candidate shared by all sessions, the active configuration   *)
(* (slot 0), the rollback slots 1..MaxHistory, the rescue slot, the        *)
(* candidate lock and the pending confirmed commit (the minutes left and   *)
(* the configuration to go back to), if any.                               *)
(***************************************************************************)
\* The root element of a reply that holds one item per routing engine or node.
Marker == "multi-routing-engine-results"

Valid(c) == "bad" \notin c

EmptyData == [root |-> "", errors |-> <<>>, output |-> {}]

OkReply(root) == [errors |-> <<>>, data |-> [EmptyData EXCEPT !.root = root]]

ErrReply(msgs) == [errors |-> msgs, data |-> EmptyData]

LockedByOther(d, s) == d.lock # NoSession /\ d.lock # s

LockedMsgs == <<"configuration database locked", "lock-denied">>

\* Configuration held by rollback slot n; slot 0 is the active configuration.
Slot(d, n) == IF n = 0 THEN d.active ELSE d.history[n]

HasSlot(d, n) == n >= 0 /\ n <= Len(d.history)

\* The history after a commit: the old active becomes slot 1, the others shift,
\* the slot beyond the bound is dropped.
Shift(d) ==
    LET h == <<d.active>> \o d.history
    IN  IF Len(h) > MaxHistory THEN SubSeq(h, 1, MaxHistory) ELSE h

\* The statements a text stands for; a line the device cannot parse rejects it.
ParseOk(text) == text # <<>> /\ \A i \in 1..Len(text) : text[i] \in Stmts

ParsedStmts(text) == {text[i] : i \in 1..Len(text)}

\* What the device fetches from a load URL.
UrlContent(path) == IF path = UrlPath THEN <<"a">> ELSE <<"garbage">>

\* The rpc-error entries of a commit-results reply for an invalid candidate.
CommitErrors(c) ==
    IF Valid(c) THEN <<>>
    ELSE << [path |-> "[edit]\n", element |-> "bad", message |-> "\nstatement not allowed\n"],
            [path |-> "[edit system]\n", element |-> "bad;", message |-> "\ncommit failed\n"] >>

\* CLI-style diff lines between the active configuration and slot n.
DiffLines(from, to) ==
    {"- " \o x : x \in from \ to} \cup {"+ " \o x : x \in to \ from}

DevLock(d, s) ==
    IF d.lock = NoSession
    THEN [dev |-> [d EXCEPT !.lock = s], reply |-> OkReply("ok")]
    ELSE [dev |-> d, reply |-> ErrReply(LockedMsgs)]

DevUnlock(d, s) ==
    IF d.lock = s
    THEN [dev |-> [d EXCEPT !.lock = NoSession], reply |-> OkReply("ok")]
    ELSE [dev |-> d, reply |-> ErrReply(<<"configuration database is not locked by this session">>)]

DevCommit(d, s) ==
    IF LockedByOther(d, s) THEN [dev |-> d, reply |-> ErrReply(LockedMsgs)]
    ELSE IF ~Valid(d.candidate)
    THEN [dev |-> d,
          reply |-> [errors |-> <<>>,
                     data |-> [root |-> "commit-results",
                               errors |-> CommitErrors(d.candidate), output |-> {}]]]
    ELSE [dev |-> [d EXCEPT !.active = d.candidate, !.history = Shift(d), !.confirm = <<>>],
          reply |-> OkReply("commit-results")]

\* A confirmed commit: a commit that starts the device's rollback timer.
DevCommitConfirm(d, s, delay) ==
    IF LockedByOther(d, s) THEN [dev |-> d, reply |-> ErrReply(LockedMsgs)]
    ELSE IF delay < 1
    THEN [dev |-> d, reply |-> ErrReply(<<"invalid confirm-timeout">>)]
    ELSE IF ~Valid(d.candidate)
    THEN [dev |-> d,
          reply |-> [errors |-> <<>>,
                     data |-> [root |-> "commit-results",
                               errors |-> CommitErrors(d.candidate), output |-> {}]]]
    ELSE [dev |-> [d EXCEPT !.active = d.candidate, !.history = Shift(d),
                            !.confirm = <<[left |-> delay, pre |-> d.active]>>],
          reply |-> OkReply("commit-results")]

\* One minute passes on the device: the timer of a pending confirmed commit runs
\* down, and at its end the device rolls back to the pre-commit configuration and
\* commits it.
DevTick(d) ==
    IF d.confirm = <<>> THEN d
    ELSE IF d.confirm[1].left > 1
    THEN [d EXCEPT !.confirm = <<[left |-> d.confirm[1].left - 1, pre |-> d.confirm[1].pre]>>]
    ELSE [d EXCEPT !.candidate = d.confirm[1].pre, !.active = d.confirm[1].pre,
                   !.history = Shift(d), !.confirm = <<>>]

DevCommitCheck(d, s) ==
    IF LockedByOther(d, s) THEN [dev |-> d, reply |-> ErrReply(LockedMsgs)]
    ELSE [dev |-> d,
          reply |-> [errors |-> <<>>,
                     data |-> [root |-> "commit-results",
                               errors |-> CommitErrors(d.candidate), output |-> {}]]]

DevLoad(d, s, cmd) ==
    LET text == IF cmd.url THEN UrlContent(cmd.text) ELSE cmd.text
    IN  IF LockedByOther(d, s) THEN [dev |-> d, reply |-> ErrReply(LockedMsgs)]
        ELSE IF ~ParseOk(text)
        THEN [dev |-> d, reply |-> ErrReply(<<"syntax error", "load failed">>)]
        ELSE [dev |-> [d EXCEPT !.candidate = d.candidate \cup ParsedStmts(text)],
              reply |-> OkReply("load-configuration-results")]

DevLoadRollback(d, s, n) ==
    IF LockedByOther(d, s) THEN [dev |-> d, reply |-> ErrReply(LockedMsgs)]
    ELSE IF ~HasSlot(d, n)
    THEN [dev |-> d, reply |-> ErrReply(<<"rollback file does not exist">>)]
    ELSE [dev |-> [d EXCEPT !.candidate = Slot(d, n)],
          reply |-> OkReply("load-configuration-results")]

DevLoadRescue(d, s) ==
    IF LockedByOther(d, s) THEN [dev |-> d, reply |-> ErrReply(LockedMsgs)]
    ELSE IF d.rescue = <<>>
    THEN [dev |-> d, reply |-> ErrReply(<<"rescue configuration does not exist">>)]
    ELSE [dev |-> [d EXCEPT !.candidate = d.rescue[1]],
          reply |-> OkReply("load-configuration-results")]

DevRescueSave(d) ==
    [dev |-> [d EXCEPT !.rescue = <<d.active>>], reply |-> OkReply("rescue-results")]

DevRescueDelete(d) ==
    [dev |-> [d EXCEPT !.rescue = <<>>], reply |-> OkReply("rescue-results")]

DevCompare(d, n) ==
    IF ~HasSlot(d, n)
    THEN [dev |-> d, reply |-> ErrReply(<<"rollback file does not exist">>)]
    ELSE [dev |-> d,
          reply |-> [errors |-> <<>>,
                     data |-> [root |-> "rollback-information", errors |-> <<>>,
                               output |-> DiffLines(d.active, Slot(d, n))]]]

\* The times of day the device understands.
ValidTimes == {"23:00"}

\* A commit at a later time: the device checks the candidate and the time and
\* schedules the commit; the activation takes place at that time, after the calls
\* followed here.
DevCommitAt(d, s, time) ==
    IF LockedByOther(d, s) THEN [dev |-> d, reply |-> ErrReply(LockedMsgs)]
    ELSE IF time \notin ValidTimes
    THEN [dev |-> d, reply |-> ErrReply(<<"invalid time", "syntax error">>)]
    ELSE IF ~Valid(d.candidate)
    THEN [dev |-> d,
          reply |-> [errors |-> <<>>,
                     data |-> [root |-> "commit-results",
                               errors |-> CommitErrors(d.candidate), output |-> {}]]]
    ELSE [dev |-> d, reply |-> OkReply("commit-results")]

\* The top-level stanza each statement belongs to.
SectionOf(stmt) == IF stmt = "b" THEN "security" ELSE "system"

\* A get-configuration request names the stanzas it asks for in text; without any
\* the device returns the whole candidate configuration.
DevGetConfig(d, cmd) ==
    LET wanted == {cmd.text[i] : i \in 1..Len(cmd.text)}
        shown == IF cmd.text = <<>> THEN d.candidate
                 ELSE {x \in d.candidate : SectionOf(x) \in wanted}
    IN  [dev |-> d,
         reply |-> [errors |-> <<>>,
                    data |-> [root |-> IF cmd.format = "text" THEN "configuration-text"
                                       ELSE "configuration",
                              errors |-> <<>>, output |-> shown]]]

\* A reboot ends every session, and with it the lock a session held.
DevReboot(d) == [dev |-> [d EXCEPT !.lock = NoSession], reply |-> OkReply("request-reboot-results")]

\* The data of a reply to <command>: the name of its one element ("" when the
\* reply holds no element, "<" when its text is no XML) and the element's inner XML.
CommandData(root, inner) == [root |-> root, errors |-> <<>>, output |-> {}, inner |-> inner]

\* The operational commands sent to the device and what it answers: output, no
\* element at all, an element without content, text cut short, an rpc-error.
Commands ==
    {"show version", "clear arp", "show system alarms", "show chassis hardware", "show bogus"}

DevCommand(d, cmd) ==
    LET c == cmd.text[1]
    IN  [dev |-> d,
         reply |->
           CASE c = "show version" ->
                  [errors |-> <<>>,
                   data |-> CommandData("output", IF cmd.format = "xml"
                                                  THEN "<host-name>srx1</host-name>"
                                                  ELSE "Hostname: srx1")]
             [] c = "clear arp" -> [errors |-> <<>>, data |-> CommandData("", "")]
             [] c = "show system alarms" -> [errors |-> <<>>, data |-> CommandData("output", "")]
             [] c = "show chassis hardware" -> [errors |-> <<>>, data |-> CommandData("<", "")]
             [] OTHER -> ErrReply(<<"syntax error", "unknown command">>)]

\* The product family of a model, as the vendor names them.
Family(model) ==
    CASE model \in {"srx240h2", "vsrx"} -> "SRX"
      [] model = "mx480" -> "MX"
      [] model = "ex4200" -> "EX"
      [] model = "qfx5100" -> "QFX"
      [] OTHER -> ""

\* The element that answers each information request of the views.
ViewReplyRoot(rpc) ==
    CASE rpc = "get-arp-table-information" -> "arp-table-information"
      [] rpc = "get-route-information" -> "route-information"
      [] rpc = "get-interface-information" -> "interface-information"
      [] rpc = "get-vlan-information" -> "vlan-information"
      [] rpc = "get-lldp-neighbors-information" -> "lldp-neighbors-information"
      [] rpc = "get-ethernet-switching-table-information" -> "ethernet-switching-table-information"
      [] rpc = "get-chassis-inventory" -> "chassis-inventory"
      [] rpc = "get-virtual-chassis-information" -> "virtual-chassis-information"
      [] rpc = "get-bgp-summary-information" -> "bgp-information"
      [] rpc = "get-static-nat-rule-information" -> "static-nat-rule-information"
      [] rpc = "get-source-nat-rule-sets-information" -> "source-nat-rule-sets-information"
      [] rpc = "get-system-storage" -> "system-storage-information"
      [] rpc = "get-firewall-policies" -> "security-policies"
      [] OTHER -> ""

\* The device answers an information request with its table; switching and
\* virtual-chassis tables exist on switches only, a device without LLDP neighbours
\* answers with an empty body, and a request it does not know is an error.
\* The NAT rule entries of one node's table: the names of the rules with the item
\* of the reply they stand in.
NatEntries(d, item) == [i \in 1..Len(d.nat) |-> [Name |-> d.nat[i], Item |-> item]]

NatRequests == {"get-static-nat-rule-information", "get-source-nat-rule-sets-information"}

\* A chassis cluster answers with one item per node, each holding the same rules;
\* a single device answers with its table.
DevNat(d, cmd) ==
    IF d.software.data.root = Marker
    THEN [dev |-> d,
          reply |-> [errors |-> <<>>,
                     data |-> [root |-> Marker, errors |-> <<>>, output |-> {},
                               entries |-> NatEntries(d, 0) \o NatEntries(d, 1)]]]
    ELSE [dev |-> d,
          reply |-> [errors |-> <<>>,
                     data |-> [root |-> ViewReplyRoot(cmd.rpc), errors |-> <<>>,
                               output |-> {}, entries |-> NatEntries(d, 0)]]]

DevView(d, cmd) ==
    LET family == Family(d.software.data.RE[1].Platform)
        switchOnly == cmd.rpc \in {"get-ethernet-switching-table-information",
                                   "get-virtual-chassis-information"}
    IN  [dev |-> d,
         reply |->
           IF ViewReplyRoot(cmd.rpc) = "" THEN ErrReply(<<"syntax error">>)
           ELSE IF switchOnly /\ family \in {"SRX", "MX"}
                THEN ErrReply(<<"command is not valid on this platform">>)
           ELSE IF cmd.rpc = "get-lldp-neighbors-information" THEN OkReply("")
           ELSE IF cmd.rpc \in NatRequests THEN DevNat(d, cmd).reply
           ELSE OkReply(ViewReplyRoot(cmd.rpc))]

\* The reply to get-software-information is a property of the device.
DevSoftware(d) == [dev |-> d, reply |-> d.software]

\* The device's answer to one request of session s.
DevHandle(d, s, cmd) ==
    CASE cmd.rpc = "lock" -> DevLock(d, s)
      [] cmd.rpc = "get-software-information" -> DevSoftware(d)
      [] cmd.rpc = "command" -> DevCommand(d, cmd)
      [] ViewReplyRoot(cmd.rpc) # "" -> DevView(d, cmd)
      [] cmd.rpc = "unlock" -> DevUnlock(d, s)
      [] cmd.rpc = "commit-configuration" -> DevCommit(d, s)
      [] cmd.rpc = "commit-configuration/check" -> DevCommitCheck(d, s)
      [] cmd.rpc = "commit-configuration/at" -> DevCommitAt(d, s, cmd.text[1])
      [] cmd.rpc = "get-configuration" -> DevGetConfig(d, cmd)
      [] cmd.rpc = "request-reboot" -> DevReboot(d)
      [] cmd.rpc = "commit-configuration/confirmed" -> DevCommitConfirm(d, s, cmd.n)
      [] cmd.rpc = "load-configuration" -> DevLoad(d, s, cmd)
      [] cmd.rpc = "load-configuration/rollback" -> DevLoadRollback(d, s, cmd.n)
      [] cmd.rpc = "load-configuration/rescue" -> DevLoadRescue(d, s)
      [] cmd.rpc = "request-save-rescue-configuration" -> DevRescueSave(d)
      [] cmd.rpc = "request-delete-rescue-configuration" -> DevRescueDelete(d)
      [] cmd.rpc = "get-rollback-information/compare" -> DevCompare(d, cmd.n)
      [] OTHER -> [dev |-> d, reply |-> ErrReply(<<"syntax error">>)]

(***************************************************************************)
(* The transport: j.Session.Exec(command).  With fail the request never    *)
(* reaches the device and Exec returns a transport error.                  *)
(***************************************************************************)
TransportErr == "transport error"

Exec(d, s, cmd, fail) ==
    IF fail
    THEN [dev |-> d, reply |-> ErrReply(<<>>), err |-> TransportErr]
    ELSE LET h == DevHandle(d, s, cmd)
         IN  [dev |-> h.dev, reply |-> h.reply, err |-> NoErr]

(***************************************************************************)
(* The session facade (src/junos.go).  Every operation yields              *)
(* [dev, err, rpcs, out]: the device after the call, the error returned,   *)
(* the requests handed to Exec in order, and the string result if any.     *)
(***************************************************************************)
Ret(d, err, rpcs) == [dev |-> d, err |-> err, rpcs |-> rpcs, out |-> {}]

\* xml.Unmarshal(reply.Data, &v) for a target whose XMLName is root.
Unmarshal(data, root) ==
    IF data.root = root
    THEN [val |-> data, err |-> NoErr]
    ELSE [val |-> EmptyData, err |-> "expected element type <" \o root \o ">"]

\* strings.Trim(s, "[\r\n]") on the strings the device sends.
Trim(s) ==
    CASE s = "[edit]\n" -> "edit"
      [] s = "[edit system]\n" -> "edit system"
      [] s = "\nstatement not allowed\n" -> "statement not allowed"
      [] s = "\ncommit failed\n" -> "commit failed"
      [] OTHER -> s

\* fmt.Sprintf("[%s]\n    %s\nError: %s", Trim(Path), Trim(Element), Trim(Message))
CommitMessage(m) ==
    "[" \o Trim(m.path) \o "]\n    " \o Trim(m.element) \o "\nError: " \o Trim(m.message)

\* The tail shared by Commit and CommitCheck: reply.Errors, Unmarshal, errs.Errors;
\* in each list the loop returns at its first entry.
CommitResult(x, cmd) ==
    IF x.err # NoErr THEN Ret(x.dev, x.err, <<cmd>>)
    ELSE IF x.reply.errors # <<>> THEN Ret(x.dev, x.reply.errors[1], <<cmd>>)
    ELSE LET u == Unmarshal(x.reply.data, "commit-results")
         IN  IF u.err # NoErr THEN Ret(x.dev, u.err, <<cmd>>)
             ELSE IF u.val.errors # <<>>
             THEN Ret(x.dev, CommitMessage(u.val.errors[1]), <<cmd>>)
             ELSE Ret(x.dev, NoErr, <<cmd>>)

\* A Commit that reports success whatever commit-results holds.
CommitIgnoringResults(d, s, fail) ==
    LET x == Exec(d, s, rpcCommit, fail)
    IN  IF x.err # NoErr THEN Ret(x.dev, x.err, <<rpcCommit>>)
        ELSE IF x.reply.errors # <<>> THEN Ret(x.dev, x.reply.errors[1], <<rpcCommit>>)
        ELSE Ret(x.dev, NoErr, <<rpcCommit>>)

\* A Commit that a session sends only while it holds the lock.
CommitByLockHolder(d, s, fail) ==
    IF d.lock # s THEN Ret(d, "configuration database is not locked by this session", <<>>)
    ELSE CommitResult(Exec(d, s, rpcCommit, fail), rpcCommit)

Commit(d, s, fail) == CommitResult(Exec(d, s, rpcCommit, fail), rpcCommit)

CommitCheck(d, s, fail) == CommitResult(Exec(d, s, rpcCommitCheck, fail), rpcCommitCheck)

CommitConfirm(d, s, delay, fail) ==
    CommitResult(Exec(d, s, rpcCommitConfirm(delay), fail), rpcCommitConfirm(delay))

CommitAt(d, s, time, fail) ==
    CommitResult(Exec(d, s, rpcCommitAt(time), fail), rpcCommitAt(time))

\* The tail of Lock, Unlock and Rescue: transport error, then the first reply error.
SimpleResult(x, cmd) ==
    IF x.err # NoErr THEN Ret(x.dev, x.err, <<cmd>>)
    ELSE IF x.reply.errors # <<>> THEN Ret(x.dev, x.reply.errors[1], <<cmd>>)
    ELSE Ret(x.dev, NoErr, <<cmd>>)

\* A Lock that does not look at reply.Errors.
LockIgnoringErrors(d, s, fail) ==
    LET x == Exec(d, s, rpcLock, fail)
    IN  Ret(x.dev, x.err, <<rpcLock>>)

\* A Lock that sends its request a second time when the first one failed.
LockRetrying(d, s, fail) ==
    LET x == Exec(d, s, rpcLock, fail)
    IN  IF x.err # NoErr \/ x.reply.errors # <<>>
        THEN [SimpleResult(Exec(x.dev, s, rpcLock, fail), rpcLock) EXCEPT !.rpcs = <<rpcLock, rpcLock>>]
        ELSE Ret(x.dev, NoErr, <<rpcLock>>)

Lock(d, s, fail) == SimpleResult(Exec(d, s, rpcLock, fail), rpcLock)

Unlock(d, s, fail) == SimpleResult(Exec(d, s, rpcUnlock, fail), rpcUnlock)

\* command := rpcRescueSave; if action == "delete" { command = rpcRescueDelete }
RescueCommand(action) == IF action = "delete" THEN rpcRescueDelete ELSE rpcRescueSave

Rescue(d, s, action, fail) ==
    SimpleResult(Exec(d, s, RescueCommand(action), fail), RescueCommand(action))

\* One case of Config's switch on format, for a string path: the URL template is
\* rendered first and then overwritten by the ReadFile if/else that follows it.
ConfigStringCommand(format, path) ==
    LET c0 == IF ContainsTp(path) THEN rpcConfigURL(format, path) ELSE EmptyCommand
        f  == ReadFile(path)
    IN  IF f.err # NoErr
        THEN rpcConfigString(format, path)
        ELSE rpcConfigFile(format, f.data)

\* Config's switch on format and on the dynamic type of path; no default case.
ConfigCommand(path, format) ==
    IF format \notin {"set", "text", "xml"} THEN EmptyCommand
    ELSE CASE path.type = "string" -> ConfigStringCommand(format, path.s)
           [] path.type = "[]string" -> rpcConfigString(format, Join(path.ss))
           [] OTHER -> EmptyCommand

\* A load-then-commit that calls Commit without looking at its error.
LoadThenCommitUnchecked(d, s, command, commit, f1, f2) ==
    LET x == Exec(d, s, command, f1)
    IN  IF x.err # NoErr THEN Ret(x.dev, x.err, <<command>>)
        ELSE LET c == IF commit THEN Commit(x.dev, s, f2) ELSE Ret(x.dev, NoErr, <<>>)
                 sent == <<command>> \o c.rpcs
             IN  IF x.reply.errors # <<>> THEN Ret(c.dev, x.reply.errors[1], sent)
                 ELSE Ret(c.dev, NoErr, sent)

\* Exec of the load, then Commit when asked, and only then the load's reply.Errors.
LoadThenCommit(d, s, command, commit, f1, f2) ==
    LET x == Exec(d, s, command, f1)
    IN  IF x.err # NoErr THEN Ret(x.dev, x.err, <<command>>)
        ELSE LET c == IF commit THEN Commit(x.dev, s, f2) ELSE Ret(x.dev, NoErr, <<>>)
                 sent == <<command>> \o c.rpcs
             IN  IF c.err # NoErr THEN Ret(c.dev, c.err, sent)
                 ELSE IF x.reply.errors # <<>> THEN Ret(c.dev, x.reply.errors[1], sent)
                 ELSE Ret(c.dev, NoErr, sent)

Config(d, s, path, format, commit, f1, f2) ==
    LoadThenCommit(d, s, ConfigCommand(path, format), commit, f1, f2)

\* LoadConfig(path string, ...): per format, the URL template, then ReadFile whose
\* error is returned before anything is sent.
LoadConfig(d, s, path, format, commit, f1, f2) ==
    IF format \notin {"set", "text", "xml"}
    THEN LoadThenCommit(d, s, EmptyCommand, commit, f1, f2)
    ELSE LET f == ReadFile(path)
         IN  IF f.err # NoErr THEN Ret(d, f.err, <<>>)
             ELSE LoadThenCommit(d, s, rpcConfigFile(format, f.data), commit, f1, f2)

\* RollbackConfig(option interface{}): option is [type, n, s]; %d of a value
\* that is no integer renders no slot number.
RollbackCommand(option) ==
    IF option.type = "string" /\ option.s = "rescue" THEN rpcRescueConfig
    ELSE IF option.type = "int" THEN rpcRollbackConfig(option.n)
    ELSE rpcRollbackConfig(-1)

RollbackConfig(d, s, option, f1, f2) ==
    LoadThenCommit(d, s, RollbackCommand(option), TRUE, f1, f2)

ConfigDiff(d, s, compare, fail) ==
    LET cmd == rpcGetRollbackCompare(compare)
        x   == Exec(d, s, cmd, fail)
    IN  IF x.err # NoErr THEN Ret(x.dev, x.err, <<cmd>>)
        ELSE IF x.reply.errors # <<>> THEN Ret(x.dev, x.reply.errors[1], <<cmd>>)
        ELSE LET u == Unmarshal(x.reply.data, "rollback-information")
             IN  IF u.err # NoErr THEN Ret(x.dev, u.err, <<cmd>>)
                 ELSE [Ret(x.dev, NoErr, <<cmd>>) EXCEPT !.out = u.val.output]

\* The first non-nil error of a list of returned errors, nil when there is none.
RECURSIVE FirstErr(_)
FirstErr(errs) ==
    IF errs = <<>> THEN NoErr
    ELSE IF Head(errs) # NoErr THEN Head(errs)
    ELSE FirstErr(Tail(errs))

\* The one element of a singleton.
Only(S) == CHOOSE x \in S : TRUE

\* The README's example program: it prints the diff against rollback 1, then
\* calls Lock, LoadConfig(file, "set", false), CommitCheck, Commit and Unlock,
\* printing each error and going on.  err is the first error printed, out the diff.
\* Each step runs once, on the device the step before it left.
ReadmeMain(d, s) ==
    Only(UNION { UNION { UNION { UNION { UNION {
        { [dev  |-> r5.dev,
           err  |-> FirstErr(<<r1.err, r2.err, r3.err, r4.err, r5.err>>),
           rpcs |-> r0.rpcs \o r1.rpcs \o r2.rpcs \o r3.rpcs \o r4.rpcs \o r5.rpcs,
           out  |-> r0.out] : r5 \in {Unlock(r4.dev, s, FALSE)} }
        : r4 \in {Commit(r3.dev, s, FALSE)} }
        : r3 \in {CommitCheck(r2.dev, s, FALSE)} }
        : r2 \in {LoadConfig(r1.dev, s, FilePath, "set", FALSE, FALSE, FALSE)} }
        : r1 \in {Lock(r0.dev, s, FALSE)} }
        : r0 \in {ConfigDiff(d, s, 1, FALSE)} })

(***************************************************************************)
(* Session establishment (NewSession).  The data of a software-information *)
(* reply is [root, RE]: the name of its root element and the               *)
(* software-information blocks under it, each [Hostname, Platform,         *)
(* PackageInfo], PackageInfo a list of [SoftwareVersion], the <comment>    *)
(* strings of one package.  A comment is a sequence of pieces of text.     *)
(***************************************************************************)
ReleaseText == "JUNOS Software Release "

ReleaseVersion == "12.1X47-D10.4"

\* The pieces comments are made of: the brackets, a line break, and two runs of
\* text that hold neither.
Pieces == {"[", "]", "\n", ReleaseText, ReleaseVersion}

\* The Go string a sequence of pieces spells.
RECURSIVE Concat(_)
Concat(c) == IF c = <<>> THEN "" ELSE Head(c) \o Concat(Tail(c))

\* rex.FindStringSubmatch(c) for rex = `^.*\[(.*)\]`: nil (<<>>) when nothing
\* matches, else <<match, group 1>>.  "." matches no line break and "^" only the
\* start of the text; each ".*" takes the longest run it can, the first one first.
FindStringSubmatch(c) ==
    LET NoBreak(a, b) == \A k \in a..b : c[k] # "\n"
        Closes(i) == {j \in (i + 1)..Len(c) : c[j] = "]" /\ NoBreak(i + 1, j - 1)}
        Opens == {i \in 1..Len(c) : c[i] = "[" /\ NoBreak(1, i - 1) /\ Closes(i) # {}}
    IN  IF Opens = {} THEN <<>>
        ELSE LET i == CHOOSE x \in Opens : \A y \in Opens : y <= x
                 j == CHOOSE x \in Closes(i) : \A y \in Closes(i) : y <= x
             IN  <<Concat(SubSeq(c, 1, j)), Concat(SubSeq(c, i + 1, j - 1))>>

\* strings.ToUpper on the product models the devices report.
ToUpper(s) ==
    CASE s = "srx240h2" -> "SRX240H2"
      [] s = "mx480" -> "MX480"
      [] s = "ex4200" -> "EX4200"
      [] s = "vsrx" -> "VSRX"
      [] s = "qfx5100" -> "QFX5100"
      [] OTHER -> s

\* strings.Contains(reply.Data, "multi-routing-engine-results"): the marker is the
\* root element's name, or stands in the text of some element.
ContainsMarker(data) ==
    \/ data.root = Marker
    \/ \E i \in 1..Len(data.RE) : Marker \in {data.RE[i].Hostname, data.RE[i].Platform}

\* What a call of NewSession ends in: a session (*Junos, nil), an error (nil, err),
\* a run-time panic, or the exit of the process (log.Fatal).
Junos(hostname, numRE, platform) ==
    [kind |-> "session", err |-> NoErr, Hostname |-> hostname,
     RoutingEngines |-> numRE, Platform |-> platform]

NoJunos(kind, err) ==
    [kind |-> kind, err |-> err, Hostname |-> "", RoutingEngines |-> 0, Platform |-> <<>>]

Panic == NoJunos("panic", "index out of range")

\* One pass of the loop body: PackageInfo[0].SoftwareVersion[0], then version[1].
\* Each index panics when out of range.
RoutingEngineOf(block) ==
    IF block.PackageInfo = <<>> THEN <<>>
    ELSE IF block.PackageInfo[1].SoftwareVersion = <<>> THEN <<>>
    ELSE LET version == FindStringSubmatch(block.PackageInfo[1].SoftwareVersion[1])
         IN  IF Len(version) < 2 THEN <<>>
             ELSE <<[Model |-> ToUpper(block.Platform), Version |-> version[2]]>>

\* The loop over facts.RE: res after it, or a panic in one of its passes.
RECURSIVE AppendEngines(_, _)
AppendEngines(res, blocks) ==
    IF blocks = <<>> THEN [panic |-> FALSE, res |-> res]
    ELSE LET e == RoutingEngineOf(Head(blocks))
         IN  IF e = <<>> THEN [panic |-> TRUE, res |-> <<>>]
             ELSE AppendEngines(res \o e, Tail(blocks))

\* The loop putting each engine before the ones it has.
RECURSIVE PrependEngines(_, _)
PrependEngines(res, blocks) ==
    IF blocks = <<>> THEN [panic |-> FALSE, res |-> res]
    ELSE LET e == RoutingEngineOf(Head(blocks))
         IN  IF e = <<>> THEN [panic |-> TRUE, res |-> <<>>]
             ELSE PrependEngines(e \o res, Tail(blocks))

\* The multi branch with the loop that prepends.
NewSessionMultiReversed(data) ==
    IF data.root # Marker
    THEN NoJunos("error", "expected element type <" \o Marker \o ">")
    ELSE IF Len(data.RE) = 0 THEN Panic
    ELSE LET l == PrependEngines(<<>>, data.RE)
         IN  IF l.panic THEN Panic
             ELSE Junos(data.RE[1].Hostname, Len(data.RE), l.res)

\* The branch taken when the marker is in the reply: var facts versionRouteEngines.
\* facts.RE[0] panics when the reply holds no engine.
NewSessionMulti(data) ==
    IF data.root # Marker
    THEN NoJunos("error", "expected element type <" \o Marker \o ">")
    ELSE IF Len(data.RE) = 0 THEN Panic
    ELSE LET l == AppendEngines(<<>>, data.RE)
         IN  IF l.panic THEN Panic
             ELSE Junos(data.RE[1].Hostname, Len(data.RE), l.res)

\* The branch taken otherwise: var facts versionRouteEngine.  Elements the reply
\* lacks leave their fields empty.
NewSessionSingle(data) ==
    IF data.root # "software-information"
    THEN NoJunos("error", "expected element type <software-information>")
    ELSE LET res == RoutingEngineOf(data.RE[1])
         IN  IF res = <<>> THEN Panic
             ELSE Junos(data.RE[1].Hostname, 1, res)

NewSession(d, s, dialFail, execFail) ==
    IF dialFail THEN NoJunos("exit", "dial: " \o TransportErr)
    ELSE LET x == Exec(d, s, rpcVersion, execFail)
         IN  IF x.err # NoErr THEN NoJunos("error", x.err)
             ELSE IF x.reply.errors # <<>> THEN NoJunos("error", x.reply.errors[1])
             ELSE IF ContainsMarker(x.reply.data) THEN NewSessionMulti(x.reply.data)
             ELSE NewSessionSingle(x.reply.data)

(***************************************************************************)
(* Operational commands (RunCommand; Command in the earlier snapshot).     *)
(***************************************************************************)
errMessage == "No output available. Please check the syntax of your command."

\* xml.Unmarshal(reply.Data, &c) for c commandXML{Config `xml:",innerxml"`}: any
\* element is taken; data without an element ends in EOF, text that is no XML in
\* a syntax error.
UnmarshalInnerXML(data) ==
    CASE data.root = "" -> [val |-> "", err |-> "EOF"]
      [] data.root = "<" -> [val |-> "", err |-> "XML syntax error"]
      [] OTHER -> [val |-> data.inner, err |-> NoErr]

RunCommandFormat(cmd, format) == IF format = "xml" THEN rpcCommandXML(cmd) ELSE rpcCommand(cmd)

\* out is the string returned beside the error.
RunCommand(d, s, cmd, format, fail) ==
    LET command == RunCommandFormat(cmd, format)
        x == Exec(d, s, command, fail)
        Result(err, str) == [Ret(x.dev, err, <<command>>) EXCEPT !.out = {str}]
    IN  IF x.err # NoErr THEN Result(x.err, errMessage)
        ELSE IF x.reply.errors # <<>> THEN Result(x.reply.errors[1], errMessage)
        ELSE LET c == UnmarshalInnerXML(x.reply.data)
             IN  IF c.err # NoErr THEN Result(c.err, errMessage)
                 ELSE IF c.val = "" THEN Result(NoErr, errMessage)
                 ELSE Result(NoErr, c.val)

(***************************************************************************)
(* GetConfig, Reboot and PrintFacts.                                       *)
(***************************************************************************)
\* The pieces GetConfig's command is put together from.
Open(name) == [k |-> "open", name |-> name]

Close(name) == [k |-> "close", name |-> name]

Empty(name) == [k |-> "empty", name |-> name]

\* The text is XML with one root element: every closing tag closes the element
\* open at that point, and nothing follows the root's closing tag.
RECURSIVE Nested(_, _, _)
Nested(tokens, stack, roots) ==
    IF tokens = <<>> THEN stack = <<>> /\ roots = 1
    ELSE LET tk == Head(tokens)
         IN  IF stack = <<>> /\ roots = 1 THEN FALSE
             ELSE CASE tk.k = "open" -> Nested(Tail(tokens), <<tk.name>> \o stack, roots)
                    [] tk.k = "empty" ->
                         Nested(Tail(tokens), stack, IF stack = <<>> THEN roots + 1 ELSE roots)
                    [] OTHER ->
                         /\ stack # <<>>
                         /\ Head(stack) = tk.name
                         /\ Nested(Tail(tokens), Tail(stack),
                                   IF Len(stack) = 1 THEN roots + 1 ELSE roots)

WellFormedXML(tokens) == Nested(tokens, <<>>, 0)

\* The stanzas a well-formed get-configuration request names.
RECURSIVE StanzasOf(_)
StanzasOf(tokens) ==
    IF tokens = <<>> THEN <<>>
    ELSE (IF Head(tokens).k = "empty" THEN <<Head(tokens).name>> ELSE <<>>)
           \o StanzasOf(Tail(tokens))

GetConfigClosing == <<Close("configuration"), Close("get-configuration")>>

\* command := "<get-configuration format=..><configuration>"; for "full" the closing
\* tags are appended; then, in every case, "<section/>" and the closing tags.
GetConfigText(section) ==
    <<Open("get-configuration"), Open("configuration")>>
      \o (IF section = "full" THEN GetConfigClosing ELSE <<>>)
      \o <<Empty(section)>> \o GetConfigClosing

\* The request as the device reads it: text that is no XML is no request at all.
RawRPC(tokens, format) ==
    IF WellFormedXML(tokens) /\ Head(tokens) = Open("get-configuration")
    THEN [Cmd("get-configuration") EXCEPT !.format = format, !.text = StanzasOf(tokens)]
    ELSE [Cmd("malformed") EXCEPT !.format = format, !.text = StanzasOf(tokens)]

\* out is the string returned: for "text" the inner XML of the reply's element, for
\* any other format reply.Data as it came, wrapper included.
GetConfig(d, s, section, format, fail) ==
    LET command == RawRPC(GetConfigText(section), format)
        x == Exec(d, s, command, fail)
    IN  IF x.err # NoErr THEN Ret(x.dev, x.err, <<command>>)
        ELSE IF x.reply.errors # <<>> THEN Ret(x.dev, x.reply.errors[1], <<command>>)
        ELSE IF format = "text"
        THEN IF x.reply.data.root = "" THEN Ret(x.dev, "EOF", <<command>>)
             ELSE [Ret(x.dev, NoErr, <<command>>) EXCEPT !.out = x.reply.data.output]
        ELSE [Ret(x.dev, NoErr, <<command>>)
                EXCEPT !.out = x.reply.data.output \cup {"<" \o x.reply.data.root \o ">"}]

Reboot(d, s, fail) == SimpleResult(Exec(d, s, rpcReboot, fail), rpcReboot)

\* The heading PrintFacts prints for a model: the case whose regexp finds the whole
\* model (FindString gives "" when it finds nothing).
FactsHeading(model) ==
    CASE model \in {"EX4200", ""} -> "fpc"
      [] model \in {"SRX240H2"} -> "node"
      [] model \in {"MX480"} -> "re"
      [] OTHER -> ""

\* What PrintFacts writes to standard output; it sends nothing and returns nothing.
PrintFacts(d, j) ==
    [Ret(d, NoErr, <<>>)
       EXCEPT !.out = {"Routing Engines/FPC's: " \o ToString(j.RoutingEngines)}
                \cup {FactsHeading(j.Platform[i].Model) \o ToString(i - 1) \o " "
                        \o j.Hostname \o " " \o j.Platform[i].Model \o " "
                        \o j.Platform[i].Version :
                        i \in {k \in 1..Len(j.Platform) :
                                 FactsHeading(j.Platform[k].Model) # ""}}]

(***************************************************************************)
(* Views (src/views.go).                                                   *)
(***************************************************************************)
ViewNames ==
    {"arp", "route", "interface", "vlan", "lldp", "ethernetswitch", "inventory",
     "virtualchassis", "bgp", "staticnat", "sourcenat", "storage", "firewallpolicy"}

\* viewCategories[view]; a key the map does not hold gives the empty string.
viewCategories(view) ==
    CASE view = "arp" -> Cmd("get-arp-table-information")
      [] view = "route" -> Cmd("get-route-information")
      [] view = "interface" -> Cmd("get-interface-information")
      [] view = "vlan" -> Cmd("get-vlan-information")
      [] view = "lldp" -> Cmd("get-lldp-neighbors-information")
      [] view = "ethernetswitch" -> Cmd("get-ethernet-switching-table-information")
      [] view = "inventory" -> Cmd("get-chassis-inventory")
      [] view = "virtualchassis" -> Cmd("get-virtual-chassis-information")
      [] view = "bgp" -> Cmd("get-bgp-summary-information")
      [] view = "staticnat" -> Cmd("get-static-nat-rule-information")
      [] view = "sourcenat" -> Cmd("get-source-nat-rule-sets-information")
      [] view = "storage" -> Cmd("get-system-storage")
      [] view = "firewallpolicy" -> Cmd("get-firewall-policies")
      [] OTHER -> EmptyCommand

rpcIntName(name) == [Cmd("get-interface-information") EXCEPT !.text = <<name>>]

\* strings.Contains(model, sub) on the upper-cased product models.
Contains(model, sub) ==
    CASE sub = "SRX" -> model \in {"SRX240H2", "VSRX"}
      [] sub = "MX" -> model \in {"MX480"}
      [] OTHER -> FALSE

NoEthernetSwitching == "ethernet-switching information is not available on this platform"

NoVirtualChassis == "virtual-chassis information is not available on this platform"

validatePlatformEthernetOnly(j, v) ==
    CASE v = "ethernetswitch" ->
           IF Contains(j.Platform[1].Model, "SRX") \/ Contains(j.Platform[1].Model, "MX")
           THEN NoEthernetSwitching ELSE NoErr
      [] OTHER -> NoErr

validatePlatform(j, v) ==
    CASE v = "ethernetswitch" ->
           IF Contains(j.Platform[1].Model, "SRX") \/ Contains(j.Platform[1].Model, "MX")
           THEN NoEthernetSwitching ELSE NoErr
      [] v = "virtualchassis" ->
           IF Contains(j.Platform[1].Model, "SRX") \/ Contains(j.Platform[1].Model, "MX")
           THEN NoVirtualChassis ELSE NoErr
      [] OTHER -> NoErr

ViewCommand(view, option) ==
    IF view = "interface" /\ Len(option) > 0 THEN rpcIntName(option[1]) ELSE viewCategories(view)

NoViewOutput == "no output available - please check the syntax of your command"

NoNat == [Count |-> 0, Entries |-> <<>>]

\* var staticnatentry StaticNatEntry: the zero value.
ZeroNatEntry == [Name |-> "", Item |-> 0]

\* The clustered branch keeps the entries with index below len/2.
ClusterNat(entries) ==
    LET actualrules == Len(entries) \div 2
    IN  [Count |-> actualrules, Entries |-> SubSeq(entries, 1, actualrules)]

\* The other branch: Count is the number decoded, then the zero entry is appended.
SingleNat(entries) ==
    [Count |-> Len(entries), Entries |-> entries \o <<ZeroNatEntry>>]

\* The staticnat and sourcenat cases of View's switch.
DecodeNat(data) ==
    IF data.root = Marker THEN ClusterNat(data.entries) ELSE SingleNat(data.entries)

NatViews == {"staticnat", "sourcenat"}

\* j is the session's facts, option the variadic argument.  out holds the root
\* element of the table decoded into the result, nat the StaticNat or SourceNat
\* field of the result.
View(d, j, s, view, option, fail) ==
    LET check == IF Contains(j.Platform[1].Model, "SRX") \/ Contains(j.Platform[1].Model, "MX")
                 THEN validatePlatform(j, view) ELSE NoErr
        command == ViewCommand(view, option)
        x == Exec(d, s, command, fail)
        r == IF check # NoErr THEN Ret(d, check, <<>>)
             ELSE IF x.err # NoErr THEN Ret(x.dev, x.err, <<command>>)
             ELSE IF x.reply.errors # <<>> THEN Ret(x.dev, x.reply.errors[1], <<command>>)
             ELSE IF x.reply.data.root = "" THEN Ret(x.dev, NoViewOutput, <<command>>)
             ELSE [Ret(x.dev, NoErr, <<command>>) EXCEPT !.out = {x.reply.data.root}]
    IN  [dev |-> r.dev, err |-> r.err, rpcs |-> r.rpcs, out |-> r.out,
         nat |-> IF r.err = NoErr /\ view \in NatViews
                 THEN DecodeNat(x.reply.data) ELSE NoNat]

(***************************************************************************)
(* The state machine: sessions call the operations in any order against    *)
(* the shared device.  last records the latest call and its result.        *)
(***************************************************************************)
OptInt(n) == [type |-> "int", n |-> n, s |-> ""]

OptString(s) == [type |-> "string", n |-> 0, s |-> s]

\* RollbackConfig's options: every slot up to one beyond the retained range, the
\* rescue token and another string.
RollbackOptions ==
    {OptInt(n) : n \in 0..(MaxHistory + 1)} \cup {OptString("rescue"), OptString("latest")}

RescueActions == {"save", "delete", "remove"}

\* The paths LoadConfig is called with: a readable local file and a URL.
LoadPaths == {FilePath, UrlPath}

RECURSIVE RpcNames(_)
RpcNames(rpcs) == IF rpcs = <<>> THEN <<>> ELSE <<Head(rpcs).rpc>> \o RpcNames(Tail(rpcs))

\* The record of a call: the operation, its session, its scalar arguments (commit
\* flag, slot or "rescue", rescue action), the error returned, the names of the
\* requests sent and the string returned.
Call(op, s, commit, option, action, r) ==
    [op |-> op, sess |-> s, commit |-> commit, option |-> option, action |-> action,
     err |-> r.err, sent |-> RpcNames(r.rpcs), out |-> r.out]

NoOpt == OptString("")

\* The data of a software-information reply and one block of it.
SoftwareData(root, blocks) == [root |-> root, RE |-> blocks]

Block(hostname, platform, comments) ==
    [Hostname |-> hostname, Platform |-> platform,
     PackageInfo |-> <<[SoftwareVersion |-> comments]>>]

ReleaseComment == <<ReleaseText, "[", ReleaseVersion, "]">>

\* The reply of a single-routing-engine SRX.
StandardSoftware ==
    [errors |-> <<>>,
     data |-> SoftwareData("software-information",
                           <<Block("srx1", "srx240h2", <<ReleaseComment>>)>>)]

(***************************************************************************)
(* Junos Space.  The client of the Junos Space REST API keeps no state of  *)
(* its own besides the parameters of a call; the server is outside the     *)
(* repository and is modelled from the documents the client decodes.       *)
(***************************************************************************)

\* Characters of a host name; a host is a sequence of characters.
Digits == {"0", "1", "2", "3", "4", "5", "6", "7", "8", "9"}

DigitsAt(host, i, n) ==
    /\ i + n - 1 <= Len(host)
    /\ \A k \in i..(i + n - 1) : host[k] \in Digits

DotAt(host, i) == i <= Len(host) /\ host[i] = "."

\* ipRegex.MatchString(host): somewhere in host there are four groups of
\* one to three digits separated by dots; the pattern is not anchored.
ipRegexMatchString(host) ==
    \E i \in 1..Len(host) : \E a \in 1..3, b \in 1..3, c \in 1..3, e \in 1..3 :
        /\ DigitsAt(host, i, a)
        /\ DotAt(host, i + a)
        /\ DigitsAt(host, i + a + 1, b)
        /\ DotAt(host, i + a + b + 1)
        /\ DigitsAt(host, i + a + b + 2, c)
        /\ DotAt(host, i + a + b + c + 2)
        /\ DigitsAt(host, i + a + b + c + 3, e)

addDeviceIPXML == [target |-> "ipAddressDiscoveryTarget", field |-> "ipAddress"]

addDeviceHostXML == [target |-> "hostNameDiscoveryTarget", field |-> "hostName"]

NoTemplate == [target |-> "", field |-> ""]

\* fmt.Sprintf(addDevice, host, user, password)
DiscoverBody(addDevice, host, user, password) ==
    [target |-> addDevice.target, field |-> addDevice.field, host |-> host,
     userName |-> user, password |-> password]

APIRequest(method, url, id, body) ==
    [Method |-> method, URL |-> url, ID |-> id, Body |-> body]

\* The reply of the server to a discovery request: the job it started.
SpaceDiscover(req) == [root |-> "task", id |-> 41]

\* The device the server reports under the name "fw1", the variable under
\* the name "var1" and the address under the name "obj1".
SpaceDevices == [name |-> "fw1", id |-> 7]

SpaceVariables == [name |-> "var1", id |-> 3]

SpaceAddresses == [name |-> "obj1", id |-> 5]

NoData == [root |-> "", name |-> "", values |-> <<>>]

\* The value the variable "var1" already has on the server.
ExistingValue == [moid |-> 9, device |-> "fw0", value |-> 4, name |-> "obj0"]

\* GET variable-definitions/<id>: the definition of the variable with that
\* identifier, or an error document when there is none.
SpaceGetVariable(id) ==
    IF id = SpaceVariables.id
    THEN [root |-> "variable-definition", name |-> SpaceVariables.name,
          values |-> <<ExistingValue>>]
    ELSE [root |-> "error", name |-> "", values |-> <<>>]

\* An assignment to a variable: the value it held is lost.
Assign(held, value) == value

\* AddDevice: the template is chosen by the pattern and then assigned the
\* host name template; one POST is sent and the job identifier decoded.  When
\* the request fails the response is nil and the deferred res.Body.Close()
\* dereferences it.
AddDevice(host, user, password, fail) ==
    LET chosen == IF ipRegexMatchString(host) THEN addDeviceIPXML ELSE NoTemplate
        addDevice == Assign(chosen, addDeviceHostXML)
        req == APIRequest("post", "device-management/discover-devices", 0,
                          DiscoverBody(addDevice, host, user, password))
    IN  IF fail
        THEN [sent |-> <<req>>, job |-> 0, err |-> "panic"]
        ELSE [sent |-> <<req>>, job |-> SpaceDiscover(req).id, err |-> NoErr]

\* getDeviceID, getVariableID, getObjectID: the identifier of the entry with
\* that name, 0 when there is none.
getDeviceID(device) == IF device = SpaceDevices.name THEN SpaceDevices.id ELSE 0

getVariableID(variable) == IF variable = SpaceVariables.name THEN SpaceVariables.id ELSE 0

getObjectID(object) == IF object = SpaceAddresses.name THEN SpaceAddresses.id ELSE 0

\* fmt.Sprintf("net.juniper.jnap.sm.om.jpa.SecurityDeviceEntity:%d", deviceID);
\* the empty sequence is the empty string.
Moid(deviceID) == <<"SecurityDeviceEntity", deviceID>>

\* xml.Unmarshal(data, &varData): no bytes end in EOF, a document with another
\* root element than variable-definition is refused.
UnmarshalVariable(data) ==
    CASE data.root = "" -> [val |-> NoData, err |-> "EOF"]
      [] data.root # "variable-definition" ->
            [val |-> NoData, err |-> "expected element type <variable-definition>"]
      [] OTHER -> [val |-> data, err |-> NoErr]

\* modifyVariableContent: the values the variable has, then the new one.
modifyVariableContent(data, moid, firewall, obj, vid) ==
    data.values \o <<[moid |-> moid, device |-> firewall, value |-> vid, name |-> obj]>>

NoArgs == [action |-> "", variable |-> "", firewall |-> "", object |-> "", host |-> <<>>]

\* The locals of one call: where the calling goroutine (pc) and the three
\* goroutines it starts (g1, g2, g3) stand, the variables they share, and
\* what the call sent and returned.
NoSpace ==
    [op |-> "none", pc |-> "idle", g1 |-> "idle", g2 |-> "idle", g3 |-> "idle",
     args |-> NoArgs, deviceID |-> 0, varID |-> 0, moid |-> <<>>, vid |-> 0,
     data |-> NoData, existing |-> <<>>, varData |-> NoData, content |-> <<>>,
     sent |-> <<>>, job |-> 0, ret |-> ""]

\* ModifyVariable up to the three go statements.
Spawn(args) ==
    [NoSpace EXCEPT !.op = "ModifyVariable", !.pc = "unmarshal", !.g1 = "start",
                    !.g2 = "start", !.g3 = "start", !.args = args]

\* First goroutine: deviceID, _ = s.getDeviceID(actions[2], true)
RunDeviceID(sp) ==
    [sp EXCEPT !.deviceID = getDeviceID(sp.args.firewall), !.g1 = "done"]

\* Second goroutine: moid from the deviceID it reads, then varID.
RunMoid(sp) == [sp EXCEPT !.moid = Moid(sp.deviceID), !.g2 = "lookup"]

RunVariableID(sp) ==
    [sp EXCEPT !.varID = getVariableID(sp.args.variable), !.g2 = "done"]

\* Third goroutine: vid, then the GET request from the varID it reads, then
\* data from the reply.
RunObjectID(sp) == [sp EXCEPT !.vid = getObjectID(sp.args.object), !.g3 = "url"]

RunExisting(sp) ==
    [sp EXCEPT !.existing = <<APIRequest("get", "variable-definitions", sp.varID, <<>>)>>,
               !.g3 = "get"]

RunGet(sp) ==
    [sp EXCEPT !.data = SpaceGetVariable(sp.existing[1].ID), !.g3 = "done"]

\* Calling goroutine: err = xml.Unmarshal(data, &varData)
MainUnmarshal(sp) ==
    LET r == UnmarshalVariable(sp.data)
    IN  IF r.err # NoErr
        THEN [sp EXCEPT !.ret = r.err, !.pc = "done"]
        ELSE [sp EXCEPT !.varData = r.val, !.pc = "content"]

\* Calling goroutine: varContent and the request body.
MainContent(sp) ==
    [sp EXCEPT !.content = modifyVariableContent(sp.varData, sp.moid,
                               sp.args.firewall, sp.args.object, sp.vid),
               !.pc = "request"]

\* Calling goroutine: the request is built only when varID is not 0; APICall
\* dereferences it, so a nil request ends the process.
MainRequest(sp) ==
    LET req == IF sp.varID # 0
               THEN CASE sp.args.action = "delete" ->
                            <<APIRequest("delete", "variable-definitions", sp.varID, <<>>)>>
                      [] sp.args.action = "add" ->
                            <<APIRequest("put", "variable-definitions", sp.varID, sp.content)>>
                      [] OTHER -> <<>>
               ELSE <<>>
    IN  IF req = <<>>
        THEN [sp EXCEPT !.ret = "panic", !.pc = "done"]
        ELSE [sp EXCEPT !.sent = req, !.ret = NoErr, !.pc = "done"]

InitDev ==
    [candidate |-> {}, active |-> {}, history |-> <<>>, rescue |-> <<>>,
     lock |-> NoSession, confirm |-> <<>>, software |-> StandardSoftware, nat |-> <<>>]

NoCall == Call("none", NoSession, FALSE, NoOpt, "", Ret(InitDev, NoErr, <<>>))

\* Both sessions are established against the device.
Init ==
    /\ dev = InitDev
    /\ last = NoCall
    /\ facts = [s \in Sessions |-> NewSession(InitDev, s, FALSE, FALSE)]
    /\ space = NoSpace

DoLock(s) ==
    \E fail \in BOOLEAN :
        LET r == Lock(dev, s, fail)
        IN  /\ dev' = r.dev
            /\ last' = Call("Lock", s, FALSE, NoOpt, "", r)
            /\ UNCHANGED <<facts, space>>

DoUnlock(s) ==
    \E fail \in BOOLEAN :
        LET r == Unlock(dev, s, fail)
        IN  /\ dev' = r.dev
            /\ last' = Call("Unlock", s, FALSE, NoOpt, "", r)
            /\ UNCHANGED <<facts, space>>

DoCommit(s) ==
    \E fail \in BOOLEAN :
        LET r == Commit(dev, s, fail)
        IN  /\ dev' = r.dev
            /\ last' = Call("Commit", s, FALSE, NoOpt, "", r)
            /\ UNCHANGED <<facts, space>>

DoCommitCheck(s) ==
    \E fail \in BOOLEAN :
        LET r == CommitCheck(dev, s, fail)
        IN  /\ dev' = r.dev
            /\ last' = Call("CommitCheck", s, FALSE, NoOpt, "", r)
            /\ UNCHANGED <<facts, space>>

\* Config and LoadConfig are taken with the transport up: a lost load leaves the
\* device as it was, and a lost commit leaves it as the same call without commit
\* does, so neither adds a device state.  RollbackConfig always commits, so its
\* commit may be lost.  The properties range over a failure at either RPC themselves.
DoConfig(s) ==
    \E pf \in ConfigInputs, commit \in BOOLEAN :
        LET r == Config(dev, s, pf[1], pf[2], commit, FALSE, FALSE)
        IN  /\ dev' = r.dev
            /\ last' = Call("Config", s, commit, NoOpt, "", r)
            /\ UNCHANGED <<facts, space>>

DoLoadConfig(s) ==
    \E pf \in LoadConfigInputs, commit \in BOOLEAN :
        LET r == LoadConfig(dev, s, pf[1], pf[2], commit, FALSE, FALSE)
        IN  /\ dev' = r.dev
            /\ last' = Call("LoadConfig", s, commit, NoOpt, "", r)
            /\ UNCHANGED <<facts, space>>

DoRescue(s) ==
    \E action \in RescueActions, fail \in BOOLEAN :
        LET r == Rescue(dev, s, action, fail)
        IN  /\ dev' = r.dev
            /\ last' = Call("Rescue", s, FALSE, NoOpt, action, r)
            /\ UNCHANGED <<facts, space>>

DoRollbackConfig(s) ==
    \E option \in RollbackOptions, f2 \in BOOLEAN :
        LET r == RollbackConfig(dev, s, option, FALSE, f2)
        IN  /\ dev' = r.dev
            /\ last' = Call("RollbackConfig", s, TRUE, option, "", r)
            /\ UNCHANGED <<facts, space>>

DoConfigDiff(s) ==
    \E n \in 0..(MaxHistory + 1), fail \in BOOLEAN :
        LET r == ConfigDiff(dev, s, n, fail)
        IN  /\ dev' = r.dev
            /\ last' = Call("ConfigDiff", s, FALSE, OptInt(n), "", r)
            /\ UNCHANGED <<facts, space>>

DoReadmeMain(s) ==
    LET r == ReadmeMain(dev, s)
    IN  /\ dev' = r.dev
        /\ last' = Call("ReadmeMain", s, FALSE, OptInt(1), "", r)
        /\ UNCHANGED <<facts, space>>

Next ==
    \E s \in Sessions :
        \/ DoLock(s)
        \/ DoUnlock(s)
        \/ DoCommit(s)
        \/ DoCommitCheck(s)
        \/ DoConfig(s)
        \/ DoLoadConfig(s)
        \/ DoRescue(s)
        \/ DoRollbackConfig(s)
        \/ DoConfigDiff(s)

Spec == Init /\ [][Next]_vars

(***************************************************************************)
(* A second state machine over the same device and operations: two         *)
(* operators who stage different statements ("a" and "b") in the shared     *)
(* candidate, step by step or by running the README's example.             *)
(***************************************************************************)
\* The "set" payloads of the two operators.
SetPayloads ==
    { GoString(<<"a">>), GoString(<<"b">>), GoStrings(<< <<"a">>, <<"b">> >>),
      GoString(FilePath) }

SharedLock(s) ==
    LET r == Lock(dev, s, FALSE)
    IN  /\ dev' = r.dev
        /\ last' = Call("Lock", s, FALSE, NoOpt, "", r)
        /\ UNCHANGED <<facts, space>>

SharedUnlock(s) ==
    LET r == Unlock(dev, s, FALSE)
    IN  /\ dev' = r.dev
        /\ last' = Call("Unlock", s, FALSE, NoOpt, "", r)
        /\ UNCHANGED <<facts, space>>

SharedConfig(s) ==
    \E path \in SetPayloads, commit \in BOOLEAN :
        LET r == Config(dev, s, path, "set", commit, FALSE, FALSE)
        IN  /\ dev' = r.dev
            /\ last' = Call("Config", s, commit, NoOpt, "", r)
            /\ UNCHANGED <<facts, space>>

SharedRollbackConfig(s) ==
    \E n \in 0..MaxHistory, f2 \in BOOLEAN :
        LET r == RollbackConfig(dev, s, OptInt(n), FALSE, f2)
        IN  /\ dev' = r.dev
            /\ last' = Call("RollbackConfig", s, TRUE, OptInt(n), "", r)
            /\ UNCHANGED <<facts, space>>

SharedNext ==
    \E s \in Sessions :
        \/ SharedLock(s)
        \/ SharedUnlock(s)
        \/ SharedConfig(s)
        \/ SharedRollbackConfig(s)
        \/ DoCommit(s)
        \/ DoReadmeMain(s)

SpecShared == Init /\ [][SharedNext]_vars

(***************************************************************************)
(* A third state machine: confirmed commits against the device's clock.    *)
(***************************************************************************)
DoCommitConfirm(s) ==
    \E delay \in 0..MaxDelay, fail \in BOOLEAN :
        LET r == CommitConfirm(dev, s, delay, fail)
        IN  /\ dev' = r.dev
            /\ last' = Call("CommitConfirm", s, FALSE, OptInt(delay), "", r)
            /\ UNCHANGED <<facts, space>>

\* A minute passes; action records whether the device rolled back at its end.
Tick ==
    /\ dev.confirm # <<>>
    /\ dev' = DevTick(dev)
    /\ last' = Call("Tick", NoSession, FALSE, NoOpt,
                    IF dev.confirm[1].left = 1 THEN "rollback" ELSE "",
                    Ret(dev, NoErr, <<>>))
    /\ UNCHANGED <<facts, space>>

ConfirmNext ==
    \/ Tick
    \/ \E s \in Sessions :
          \/ SharedConfig(s)
          \/ DoCommit(s)
          \/ DoCommitConfirm(s)

SpecConfirm == Init /\ [][ConfirmNext]_vars

(***************************************************************************)
(* Properties.                                                            *)
(***************************************************************************)
ValidFormats == {"set", "text", "xml"}

\* The load step of a call, taken alone: it succeeds when the transport delivers
\* it and the reply carries no error.
LoadStep(d, s, command) == Exec(d, s, command, FALSE)

LoadSucceeds(d, s, command) == LoadStep(d, s, command).reply.errors = <<>>

\* Config with commit=false and, when it returned nil, Commit.
ConfigThenCommit(d, s, path, format, f1, f2) ==
    LET a == Config(d, s, path, format, FALSE, f1, FALSE)
    IN  IF a.err # NoErr THEN a
        ELSE LET c == Commit(a.dev, s, f2)
             IN  Ret(c.dev, c.err, a.rpcs \o c.rpcs)

\* C1: Config(commit=true) ends in the same device state and returns the same
\* error as Config(commit=false) followed by Commit(), for every payload, format
\* and device state, the rejected load included.
C1_CommitOnLoadIsLoadThenCommit ==
    \A s \in Sessions, path \in Payloads, format \in Formats, f1 \in BOOLEAN, f2 \in BOOLEAN :
        LET x == Config(dev, s, path, format, TRUE, f1, f2)
            y == ConfigThenCommit(dev, s, path, format, f1, f2)
        IN  x.dev = y.dev /\ x.err = y.err

\* C2: at most one session holds the candidate lock.  A Lock that returns nil makes
\* its session the holder; the holder stays until its own Unlock; while a holds, a
\* Lock by another session returns an error, the first of the device's error list
\* when the request was answered, and leaves a the holder.
C2_LockExclusive ==
    [][ /\ (last'.op = "Lock" /\ last'.err = NoErr) => dev'.lock = last'.sess
        /\ \A a \in Sessions :
              /\ (dev.lock = a /\ dev'.lock # a) => (last'.op = "Unlock" /\ last'.sess = a)
              /\ (dev.lock = a /\ last'.op = "Lock" /\ last'.sess # a)
                    => /\ last'.err \in {LockedMsgs[1], TransportErr}
                       /\ dev'.lock = a
      ]_vars

C2_Witness ==
    /\ last.op = "Lock"
    /\ last.err = LockedMsgs[1]
    /\ dev.lock \in Sessions \ {last.sess}

\* C3: Config(payload, format, false) followed by CommitCheck leaves the active
\* configuration and every rollback slot as they were, whatever CommitCheck reports.
C3_CommitCheckKeepsActive ==
    \A s \in Sessions, path \in Payloads, format \in Formats, f1 \in BOOLEAN, f2 \in BOOLEAN :
        LET a == Config(dev, s, path, format, FALSE, f1, FALSE)
            b == CommitCheck(a.dev, s, f2)
        IN  b.dev.active = dev.active /\ b.dev.history = dev.history

C3_Witness ==
    /\ last.op = "CommitCheck"
    /\ last.err = NoErr
    /\ dev.candidate # dev.active

\* C4: a Commit that returns nil activates the candidate, makes the old active
\* configuration slot 1, moves each older slot k to k+1 and drops the slot beyond
\* the bound; a Commit that returns an error changes neither the active
\* configuration nor any slot.
C4_CommitAdvancesHistory ==
    \A s \in Sessions, fail \in BOOLEAN :
        LET r == Commit(dev, s, fail)
            h == r.dev.history
        IN  IF r.err = NoErr
            THEN /\ r.dev.active = dev.candidate
                 /\ Len(h) = (IF Len(dev.history) < MaxHistory
                              THEN Len(dev.history) + 1 ELSE MaxHistory)
                 /\ h[1] = dev.active
                 /\ \A k \in 1..Len(dev.history) : k + 1 <= MaxHistory => h[k + 1] = dev.history[k]
            ELSE r.dev.active = dev.active /\ r.dev.history = dev.history

C4_Witness ==
    /\ last.op = "Commit"
    /\ last.err = NoErr
    /\ Len(dev.history) = MaxHistory
    /\ dev.history[1] # dev.active

\* C5: for every retained slot n, ConfigDiff(n), RollbackConfig(n), ConfigDiff(0)
\* ends with an empty diff, and a RollbackConfig(n) that returned nil leaves the
\* configuration slot n held before the call active.
C5_RollbackConverges ==
    \A s \in Sessions, n \in 0..Len(dev.history), f1 \in BOOLEAN, f2 \in BOOLEAN :
        LET r1 == ConfigDiff(dev, s, n, FALSE)
            r2 == RollbackConfig(r1.dev, s, OptInt(n), f1, f2)
            r3 == ConfigDiff(r2.dev, s, 0, FALSE)
        IN  /\ r3.err = NoErr /\ r3.out = {}
            /\ r2.err = NoErr => r2.dev.active = Slot(dev, n)

C5_Witness ==
    /\ last.op = "RollbackConfig"
    /\ last.err = NoErr
    /\ last.option.type = "int" /\ last.option.n >= 1
    /\ Len(dev.history) >= 1
    /\ dev.active # dev.history[1]

\* C6: after Rescue("save") and Rescue("delete"), RollbackConfig("rescue") returns
\* an error and leaves the active configuration unchanged.
C6_RollbackToDeletedRescueFails ==
    \A s \in Sessions :
        LET r1 == Rescue(dev, s, "save", FALSE)
            r2 == Rescue(r1.dev, s, "delete", FALSE)
            r3 == RollbackConfig(r2.dev, s, OptString("rescue"), FALSE, FALSE)
        IN  r3.err # NoErr /\ r3.dev.active = dev.active

\* C7: Rescue with an action other than "save" or "delete" returns an error and
\* has sent no request.
C7_RescueRejectsOtherActions ==
    (last.op = "Rescue" /\ last.action \notin {"save", "delete"})
        => (last.err # NoErr /\ last.sent = <<>>)

\* C8: Config and LoadConfig with a format outside {set, text, xml}, and Config with
\* a payload that is neither a string nor a []string, return an error and send no
\* request.
C8_BadArgumentsSendNothing ==
    \A s \in Sessions, format \in Formats, commit \in BOOLEAN :
        /\ \A path \in Payloads :
              (format \notin ValidFormats \/ path.type \notin {"string", "[]string"})
                  => LET r == Config(dev, s, path, format, commit, FALSE, FALSE)
                     IN  r.err # NoErr /\ r.rpcs = <<>>
        /\ \A path \in LoadPaths :
              format \notin ValidFormats
                  => LET r == LoadConfig(dev, s, path, format, commit, FALSE, FALSE)
                     IN  r.err # NoErr /\ r.rpcs = <<>>

\* C9: a string payload containing "tp://" is sent in the URL template of the
\* format, a string naming a readable file as that file's contents, any other
\* string and a []string (joined by newline) as an inline batch.
C9_PayloadSourceSelectsTemplate ==
    \A s \in Sessions, path \in Payloads, format \in ValidFormats :
        LET r == Config(dev, s, path, format, FALSE, FALSE, FALSE)
        IN  /\ (path.type = "string" /\ ContainsTp(path.s))
                  => r.rpcs = <<rpcConfigURL(format, path.s)>>
            /\ (path.type = "string" /\ ~ContainsTp(path.s) /\ ReadFile(path.s).err = NoErr)
                  => r.rpcs = <<rpcConfigFile(format, ReadFile(path.s).data)>>
            /\ (path.type = "string" /\ ~ContainsTp(path.s) /\ ReadFile(path.s).err # NoErr)
                  => r.rpcs = <<rpcConfigString(format, path.s)>>
            /\ path.type = "[]string" => r.rpcs = <<rpcConfigString(format, Join(path.ss))>>

\* C10: when the load step succeeds and the commit step fails, Config(commit=true)
\* and RollbackConfig return the commit's error, send nothing after the commit,
\* leave the loaded content in the candidate and leave the active configuration
\* and the rollback slots unchanged.
PartialFailureKept(d, s, command, r, f2) ==
    LET x == LoadStep(d, s, command)
        c == Commit(x.dev, s, f2)
    IN  (LoadSucceeds(d, s, command) /\ c.err # NoErr)
            => /\ r.err = c.err
               /\ r.rpcs = <<command, rpcCommit>>
               /\ r.dev.candidate = x.dev.candidate
               /\ r.dev.active = d.active
               /\ r.dev.history = d.history

C10_FailedCommitLeavesLoadStaged ==
    \A s \in Sessions, f2 \in BOOLEAN :
        /\ \A path \in Payloads, format \in Formats :
              PartialFailureKept(dev, s, ConfigCommand(path, format),
                                 Config(dev, s, path, format, TRUE, FALSE, f2), f2)
        /\ \A option \in RollbackOptions :
              PartialFailureKept(dev, s, RollbackCommand(option),
                                 RollbackConfig(dev, s, option, FALSE, f2), f2)

C10_Witness ==
    /\ last.op = "Config"
    /\ last.commit
    /\ last.sent = <<"load-configuration", "commit-configuration">>
    /\ last.err = CommitMessage(CommitErrors({"bad"})[1])
    /\ dev.candidate = {"a", "bad"}
    /\ dev.active = {}

(***************************************************************************)
(* A fourth state machine: sessions being established against devices      *)
(* whose software-information reply is any of SoftwareReplies.             *)
(***************************************************************************)
\* The comments of up to n pieces.
RECURSIVE CommentsUpTo(_)
CommentsUpTo(n) ==
    IF n = 0 THEN {<<>>}
    ELSE LET shorter == CommentsUpTo(n - 1)
         IN  shorter \cup {Append(c, x) : c \in shorter, x \in Pieces}

Comments == CommentsUpTo(MaxComment)

\* The routing engine whose comment varies, and the engine at place k beside it.
EngineBlock(c) == Block("srx1", "srx240h2", <<c>>)

StdBlock(k) == Block("re" \o ToString(k), "mx480", <<ReleaseComment>>)

SingleData(block) == SoftwareData("software-information", <<block>>)

\* n engines, block at place i.
MultiData(block, i, n) ==
    SoftwareData(Marker, [k \in 1..n |-> IF k = i THEN block ELSE StdBlock(k)])

\* Blocks that lack the package information or its comment.
BareBlocks ==
    { [Hostname |-> "srx1", Platform |-> "srx240h2", PackageInfo |-> <<>>],
      Block("srx1", "srx240h2", <<>>) }

EngineBlocks == {EngineBlock(c) : c \in Comments} \cup BareBlocks

\* The replies: every engine block alone and at every place among up to MaxRE
\* engines; no engine at all; a single engine whose host name is the marker; text
\* that is no XML; a reply of rpc-errors.
SoftwareReplies ==
    { [errors |-> <<>>, data |-> SingleData(b)] : b \in EngineBlocks }
      \cup { [errors |-> <<>>, data |-> MultiData(b, i, n)] :
                b \in EngineBlocks, i \in 1..MaxRE, n \in 1..MaxRE }
      \cup { [errors |-> <<>>, data |-> SoftwareData(Marker, <<>>)],
             [errors |-> <<>>, data |-> SingleData(Block(Marker, "srx240h2", <<ReleaseComment>>))],
             [errors |-> <<>>, data |-> SoftwareData("", <<>>)],
             [errors |-> <<"get-software-information failed", "second error">>,
              data |-> SoftwareData("", <<>>)] }

NotEstablished == NoJunos("none", NoErr)

InitFacts ==
    /\ dev \in {[InitDev EXCEPT !.software = r] : r \in SoftwareReplies}
    /\ last = NoCall
    /\ facts = [s \in Sessions |-> NotEstablished]
    /\ space = NoSpace

\* NewSession sends one request when the dial succeeded.
NewSessionRpcs(dialFail) == IF dialFail THEN <<>> ELSE <<rpcVersion>>

DoNewSession(s) ==
    \E f \in 0..2 :
        LET j == NewSession(dev, s, f = 1, f = 2)
        IN  /\ facts[s].kind \in {"none", "error"}
            /\ facts' = [facts EXCEPT ![s] = j]
            /\ last' = Call("NewSession", s, FALSE, NoOpt, j.kind,
                            Ret(dev, j.err, NewSessionRpcs(f = 1)))
            /\ UNCHANGED <<dev, space>>

FactsNext == \E s \in Sessions : DoNewSession(s)

SpecFacts == InitFacts /\ [][FactsNext]_vars

(***************************************************************************)
(* A fifth state machine: sessions established against devices of several  *)
(* platforms run operational commands and views.                           *)
(***************************************************************************)
\* The product models the devices report.
ProductModels == {"srx240h2", "mx480", "ex4200", "vsrx", "qfx5100"}

PlatformReplies ==
    { [errors |-> <<>>, data |-> SingleData(Block("host1", m, <<ReleaseComment>>))] :
        m \in ProductModels }
      \cup { [errors |-> <<>>,
              data |-> SoftwareData(Marker, << Block("node0", "srx240h2", <<ReleaseComment>>),
                                               Block("node1", "srx240h2", <<ReleaseComment>>) >>)] }

\* The NAT rules of a device: none, one, ... up to MaxRules.
NatTables == {[i \in 1..k |-> "rule" \o ToString(i)] : k \in 0..MaxRules}

InitViews ==
    /\ dev \in {[InitDev EXCEPT !.software = r, !.nat = n] :
                   r \in PlatformReplies, n \in NatTables}
    /\ last = NoCall
    /\ facts = [s \in Sessions |-> NotEstablished]
    /\ space = NoSpace

CommandFormats == {"text", "xml", ""}

DoRunCommand(s) ==
    \E cmd \in Commands, format \in CommandFormats, fail \in BOOLEAN :
        LET r == RunCommand(dev, s, cmd, format, fail)
        IN  /\ facts[s].kind = "session"
            /\ dev' = r.dev
            /\ last' = Call("RunCommand", s, FALSE, OptString(format), cmd, r)
            /\ UNCHANGED <<facts, space>>

\* The views asked for: every built-in view and a name the map does not hold.
ViewInputs == ViewNames \cup {"alarms"}

\* The variadic option: absent, or the name of one interface.
ViewOptions == {<<>>, <<"ge-0/0/0">>}

DoView(s) ==
    \E view \in ViewInputs, option \in ViewOptions, fail \in BOOLEAN :
        LET r == View(dev, facts[s], s, view, option, fail)
        IN  /\ facts[s].kind = "session"
            /\ dev' = r.dev
            /\ last' = Call("View", s, FALSE,
                            OptString(IF option = <<>> THEN "" ELSE option[1]), view, r)
            /\ UNCHANGED <<facts, space>>

ViewsNext ==
    \E s \in Sessions :
        \/ DoNewSession(s)
        \/ DoRunCommand(s)
        \/ DoView(s)

SpecViews == InitViews /\ [][ViewsNext]_vars

(***************************************************************************)
(* A sixth state machine: two established sessions call every operation of *)
(* the session facade against the standard device, each with few inputs.   *)
(***************************************************************************)
\* The stanzas asked for: the whole configuration, a stanza that holds statements
\* and one that holds none.
Sections == {"full", "system", "snmp"}

ConfigFormats == {"text", "xml"}

\* One call: the device and the record of the call change, the facts do not.
\* A call that also empties the platform list of its session.
StepClearingPlatform(op, s, commit, option, action, r) ==
    /\ dev' = r.dev
    /\ last' = Call(op, s, commit, option, action, r)
    /\ facts' = [facts EXCEPT ![s].Platform = <<>>, ![s].RoutingEngines = 0]
    /\ UNCHANGED space

Step(op, s, commit, option, action, r) ==
    /\ dev' = r.dev
    /\ last' = Call(op, s, commit, option, action, r)
    /\ UNCHANGED <<facts, space>>

DoGetConfig(s) ==
    \E section \in Sections, format \in ConfigFormats :
        Step("GetConfig", s, FALSE, OptString(format), section,
             GetConfig(dev, s, section, format, FALSE))

DoCommitAt(s) ==
    \E time \in {"23:00", "soon"} :
        Step("CommitAt", s, FALSE, OptString(time), "", CommitAt(dev, s, time, FALSE))

DoReboot(s) == \E fail \in BOOLEAN : Step("Reboot", s, FALSE, NoOpt, "", Reboot(dev, s, fail))

DoPrintFacts(s) == Step("PrintFacts", s, FALSE, NoOpt, "", PrintFacts(dev, facts[s]))

SessionConfiguration(s) ==
    \/ Step("Lock", s, FALSE, NoOpt, "", Lock(dev, s, FALSE))
    \/ Step("Unlock", s, FALSE, NoOpt, "", Unlock(dev, s, FALSE))
    \/ \E commit \in BOOLEAN :
          Step("Config", s, commit, NoOpt, "",
               Config(dev, s, GoString(<<"a">>), "set", commit, FALSE, FALSE))
    \/ Step("RollbackConfig", s, TRUE, OptInt(1), "",
            RollbackConfig(dev, s, OptInt(1), FALSE, FALSE))
    \/ Step("Commit", s, FALSE, NoOpt, "", Commit(dev, s, FALSE))
    \/ Step("CommitCheck", s, FALSE, NoOpt, "", CommitCheck(dev, s, FALSE))
    \/ Step("CommitConfirm", s, FALSE, OptInt(1), "", CommitConfirm(dev, s, 1, FALSE))
    \/ Step("ConfigDiff", s, FALSE, OptInt(1), "", ConfigDiff(dev, s, 1, FALSE))
    \/ \E action \in {"save", "delete"} :
          Step("Rescue", s, FALSE, NoOpt, action, Rescue(dev, s, action, FALSE))

SessionInformation(s) ==
    \/ \E view \in {"arp", "virtualchassis"} :
          Step("View", s, FALSE, NoOpt, view, View(dev, facts[s], s, view, <<>>, FALSE))
    \/ \E cmd \in {"show version", "clear arp"} :
          Step("RunCommand", s, FALSE, OptString("text"), cmd,
               RunCommand(dev, s, cmd, "text", FALSE))

SessionNext ==
    \/ Tick
    \/ \E s \in Sessions :
        \/ SessionConfiguration(s)
        \/ SessionInformation(s)
        \/ DoCommitAt(s)
        \/ DoGetConfig(s)
        \/ DoReboot(s)
        \/ DoPrintFacts(s)

SpecSession == Init /\ [][SessionNext]_vars

(***************************************************************************)
(* Seventh state machine: the calls against Junos Space.  ModifyVariable   *)
(* starts three goroutines and goes on without waiting for them; its       *)
(* statements and theirs are interleaved in every order.                   *)
(***************************************************************************)
SpaceActions == {"add", "delete"}

SpaceNames ==
    [action : SpaceActions, variable : {"var1", "var9"}, firewall : {"fw1", "fw9"},
     object : {"obj1", "obj9"}, host : {<<>>}]

Hosts ==
    { <<"1", "0", ".", "2", ".", "3", ".", "4">>,
      <<"f", "w", "1">>,
      <<"f", "w", "-", "1", ".", "2", ".", "3", ".", "4">>,
      <<"1", ".", "2", ".", "3">> }

\* No call is running: nothing was called yet, or the call returned and the
\* goroutines it started have ended.
Quiescent(sp) ==
    /\ sp.pc \in {"idle", "done"}
    /\ \A g \in {sp.g1, sp.g2, sp.g3} : g \in {"idle", "done"}
    /\ sp.ret # "panic"

\* The process runs: a panic of the calling goroutine ends every goroutine.
Alive(sp) == sp.ret # "panic"

DoModifyVariable ==
    /\ Quiescent(space)
    /\ \E args \in SpaceNames : space' = Spawn(args)
    /\ UNCHANGED <<dev, last, facts>>

GoDeviceID ==
    /\ Alive(space) /\ space.g1 = "start"
    /\ space' = RunDeviceID(space)
    /\ UNCHANGED <<dev, last, facts>>

GoMoid ==
    /\ Alive(space) /\ space.g2 = "start"
    /\ space' = RunMoid(space)
    /\ UNCHANGED <<dev, last, facts>>

GoVariableID ==
    /\ Alive(space) /\ space.g2 = "lookup"
    /\ space' = RunVariableID(space)
    /\ UNCHANGED <<dev, last, facts>>

GoObjectID ==
    /\ Alive(space) /\ space.g3 = "start"
    /\ space' = RunObjectID(space)
    /\ UNCHANGED <<dev, last, facts>>

GoExisting ==
    /\ Alive(space) /\ space.g3 = "url"
    /\ space' = RunExisting(space)
    /\ UNCHANGED <<dev, last, facts>>

GoGet ==
    /\ Alive(space) /\ space.g3 = "get"
    /\ space' = RunGet(space)
    /\ UNCHANGED <<dev, last, facts>>

DoUnmarshal ==
    /\ space.pc = "unmarshal"
    /\ space' = MainUnmarshal(space)
    /\ UNCHANGED <<dev, last, facts>>

DoContent ==
    /\ space.pc = "content"
    /\ space' = MainContent(space)
    /\ UNCHANGED <<dev, last, facts>>

DoRequest ==
    /\ space.pc = "request"
    /\ space' = MainRequest(space)
    /\ UNCHANGED <<dev, last, facts>>

DoAddDevice ==
    /\ Quiescent(space)
    /\ \E host \in Hosts, fail \in BOOLEAN :
          LET r == AddDevice(host, "admin", "secret", fail)
          IN  space' = [NoSpace EXCEPT !.op = "AddDevice", !.pc = "done",
                                       !.args = [NoArgs EXCEPT !.host = host],
                                       !.sent = r.sent, !.job = r.job, !.ret = r.err]
    /\ UNCHANGED <<dev, last, facts>>

SpaceNext ==
    \/ DoModifyVariable
    \/ GoDeviceID
    \/ GoMoid
    \/ GoVariableID
    \/ GoObjectID
    \/ GoExisting
    \/ GoGet
    \/ DoUnmarshal
    \/ DoContent
    \/ DoRequest
    \/ DoAddDevice

SpecSpace == Init /\ [][SpaceNext]_vars

\* The statements named by the lines of a diff, whatever their sign.
DiffStmts(out) == {x \in Stmts : ("+ " \o x) \in out \/ ("- " \o x) \in out}

\* The statements a payload adds to configuration c when loaded in the "set" format.
AddedBy(c, path) ==
    LET cmd == ConfigCommand(path, "set")
    IN  ParsedStmts(IF cmd.url THEN UrlContent(cmd.text) ELSE cmd.text) \ c

\* Lock, Config(path, "set", false), CommitCheck, Commit, Unlock, then ConfigDiff(1).
EndToEnd(d, s, path) ==
    LET r1 == Lock(d, s, FALSE)
        r2 == Config(r1.dev, s, path, "set", FALSE, FALSE, FALSE)
        r3 == CommitCheck(r2.dev, s, FALSE)
        r4 == Commit(r3.dev, s, FALSE)
        r5 == Unlock(r4.dev, s, FALSE)
    IN  [ok   |-> FirstErr(<<r1.err, r2.err, r3.err, r4.err, r5.err>>) = NoErr,
         dev  |-> r5.dev,
         diff |-> ConfigDiff(r5.dev, s, 1, FALSE)]

EndToEndShowsPayload(d, s, path) ==
    LET e == EndToEnd(d, s, path)
    IN  e.ok => /\ e.diff.err = NoErr
                /\ DiffStmts(e.diff.out) = AddedBy(d.active, path)
                /\ e.dev.lock = NoSession

\* C11 (as stated): from any device state where no other session holds the lock,
\* Lock, Config(setPayload, "set", false), CommitCheck, Commit, Unlock, each
\* returning nil, end with the lock free and ConfigDiff(1) showing exactly the
\* lines setPayload added to the configuration.
C11_EndToEndFromAnyState ==
    \A s \in Sessions, path \in SetPayloads :
        ~LockedByOther(dev, s) => EndToEndShowsPayload(dev, s, path)

\* C11 (amended): the same, from the states where in addition the candidate holds
\* no uncommitted change (it equals the active configuration).
C11_EndToEndFromCleanCandidate ==
    \A s \in Sessions, path \in SetPayloads :
        (~LockedByOther(dev, s) /\ dev.candidate = dev.active)
            => EndToEndShowsPayload(dev, s, path)

C11_Witness ==
    /\ last.op = "ReadmeMain"
    /\ last.err = NoErr
    /\ dev.lock = NoSession
    /\ Len(dev.history) >= 1
    /\ dev.active = dev.history[1] \cup {"a"}
    /\ dev.active # dev.history[1]

\* The device n minutes later, nothing else having been sent to it.
RECURSIVE Ticks(_, _)
Ticks(d, n) == IF n = 0 THEN d ELSE Ticks(DevTick(d), n - 1)

\* C12: CommitConfirm sends one request whatever happens.  When it returns nil the
\* candidate is active; with no Commit the device keeps it for delay-1 minutes and
\* is back at the pre-commit configuration after delay minutes; a Commit returning
\* nil within the window keeps the committed configuration for good.
C12_ConfirmedCommitRevertsUnlessCommitted ==
    \A s \in Sessions, delay \in 1..MaxDelay :
        /\ \A fail \in BOOLEAN :
              CommitConfirm(dev, s, delay, fail).rpcs = <<rpcCommitConfirm(delay)>>
        /\ LET r == CommitConfirm(dev, s, delay, FALSE)
           IN  r.err = NoErr =>
                 /\ r.dev.active = dev.candidate
                 /\ Ticks(r.dev, delay).active = dev.active
                 /\ \A k \in 0..(delay - 1) :
                       /\ Ticks(r.dev, k).active = dev.candidate
                       /\ LET c == Commit(Ticks(r.dev, k), s, FALSE)
                          IN  c.err = NoErr =>
                                \A m \in 0..(MaxDelay + 1) :
                                    Ticks(c.dev, m).active = dev.candidate

C12_Witness ==
    /\ last.op = "Tick"
    /\ last.action = "rollback"
    /\ Len(dev.history) >= 1
    /\ dev.active # dev.history[1]

\* The software-information reply of the device, when it carries no rpc-error.
Answered == dev.software.errors = <<>>

SwData == dev.software.data

\* Session s called NewSession last and the reply, free of rpc-errors, reached it.
Decoded(s) ==
    /\ Answered
    /\ last.op = "NewSession" /\ last.sess = s
    /\ last.sent = <<"get-software-information">>
    /\ last.err # TransportErr

\* The first comment of the first package of a block, if it has one.
HasComment(block) ==
    block.PackageInfo # <<>> /\ block.PackageInfo[1].SoftwareVersion # <<>>

CommentOf(block) == block.PackageInfo[1].SoftwareVersion[1]

\* c holds a bracketed token: a "[" with a "]" after it.
HasToken(c) == \E i \in 1..Len(c), k \in 1..Len(c) : i < k /\ c[i] = "[" /\ c[k] = "]"

\* c holds a bracketed token on its first line.
HasTokenOnFirstLine(c) ==
    \E i \in 1..Len(c), k \in 1..Len(c) :
        i < k /\ c[i] = "[" /\ c[k] = "]" /\ \A m \in 1..k : c[m] # "\n"

\* What NewSession makes of block alone, sent by a single-routing-engine device.
AloneFact(s, block) ==
    NewSession([dev EXCEPT !.software = [errors |-> <<>>, data |-> SingleData(block)]],
               s, FALSE, FALSE)

C14_NoSessionWithoutEngines ==
    \A s \in Sessions :
        LET j == facts[s]
        IN  Decoded(s) =>
              /\ j.kind = "session"
                    => (j.RoutingEngines >= 1 /\ Len(j.Platform) = j.RoutingEngines)
              /\ Len(SwData.RE) = 0 => j.kind = "error"

\* C15: when the comment of a routing engine holds no bracketed token, NewSession
\* returns an error or a fact with an empty Version.
C15_NoTokenGivesErrorOrEmptyVersion ==
    \A s \in Sessions :
        LET j == facts[s]
        IN  (/\ Decoded(s)
             /\ SwData.root = "software-information"
             /\ ~ContainsMarker(SwData)
             /\ HasComment(SwData.RE[1])
             /\ ~HasToken(CommentOf(SwData.RE[1])))
                => \/ j.kind = "error"
                   \/ j.kind = "session" /\ j.Platform[1].Version = ""

\* c holds the token "[12.1X47-D10.4]".
HasReleaseToken(c) ==
    \E i \in 1..Len(c) :
        i + 2 <= Len(c) /\ SubSeq(c, i, i + 2) = <<"[", ReleaseVersion, "]">>

\* C16: for a comment that holds the token "[12.1X47-D10.4]", as "JUNOS Software
\* Release [12.1X47-D10.4]" does, the fact's Version is exactly "12.1X47-D10.4" and
\* its Model the upper-cased product model.
C16_VersionIsTextBetweenBrackets ==
    \A s \in Sessions :
        LET j == facts[s]
        IN  (/\ Decoded(s)
             /\ SwData.root = "software-information"
             /\ ~ContainsMarker(SwData)
             /\ HasComment(SwData.RE[1])
             /\ HasReleaseToken(CommentOf(SwData.RE[1])))
                => /\ j.kind = "session"
                   /\ j.Platform[1].Version = ReleaseVersion
                   /\ j.Platform[1].Model = "SRX240H2"

\* The reply the device gives to the command of the latest RunCommand.
LastCommandReply == DevCommand(dev, RunCommandFormat(last.action, last.option.s)).reply

\* C17: a RunCommand whose reply carries no rpc-error and an empty body (no element
\* or an element without content) returns the "No output available" string with a
\* nil error; a non-nil error comes only from a transport failure, an rpc-error in
\* the reply or a reply that is no XML.
C17_EmptyBodyIsSoftResult ==
    last.op = "RunCommand" =>
        /\ (/\ last.err # TransportErr
            /\ LastCommandReply.errors = <<>>
            /\ LastCommandReply.data.root # "<"
            /\ LastCommandReply.data.inner = "")
              => (last.err = NoErr /\ last.out = {errMessage})
        /\ last.err # NoErr
              => \/ last.err = TransportErr
                 \/ LastCommandReply.errors # <<>>
                 \/ LastCommandReply.data.root = "<"

\* The view named by the latest call is one the session's platform lacks: an
\* ethernet-switching or virtual-chassis view on an SRX or an MX.
UnsupportedView ==
    /\ last.action \in {"ethernetswitch", "virtualchassis"}
    /\ Family(dev.software.data.RE[1].Platform) \in {"SRX", "MX"}

\* The request of the view named by the latest call.
LastViewRpc ==
    IF last.action = "interface" /\ last.option.s # ""
    THEN "get-interface-information"
    ELSE viewCategories(last.action).rpc

\* C18: View("ethernetswitch") and View("virtualchassis") on an SRX or MX return the
\* unsupported-platform error and send no request; every other view on those
\* platforms, and every view on another platform, passes the check and sends the
\* view's request.
C18_UnsupportedViewFailsBeforeRpc ==
    last.op = "View" =>
        IF UnsupportedView
        THEN /\ last.err = (IF last.action = "ethernetswitch"
                            THEN NoEthernetSwitching ELSE NoVirtualChassis)
             /\ last.sent = <<>>
        ELSE /\ last.err \notin {NoEthernetSwitching, NoVirtualChassis}
             /\ last.sent = <<LastViewRpc>>

C18_Witness ==
    /\ last.op = "View"
    /\ last.action = "virtualchassis"
    /\ facts[last.sess].Platform[1].Model = "MX480"
    /\ last.err = NoVirtualChassis
    /\ last.sent = <<>>

\* The configuration output of the device's reply to the compare of the latest
\* ConfigDiff (the device is as the call left it: ConfigDiff changes nothing).
LastCompareReply == DevCompare(dev, last.option.n).reply

\* C19: ConfigDiff(n) returns a non-nil error when slot n is outside the retained
\* history or when the reply carries an empty configuration output; it never
\* returns the empty string with a nil error for a slot that does not exist.
C19_ConfigDiffEmptyOrMissingIsError ==
    last.op = "ConfigDiff" =>
        /\ (~HasSlot(dev, last.option.n) \/ LastCompareReply.data.output = {})
              => last.err # NoErr
        /\ ~HasSlot(dev, last.option.n) => ~(last.out = {} /\ last.err = NoErr)

\* Config, CommitCheck, Commit and RollbackConfig of session s send their requests
\* in device state d, whoever holds the lock.
SendsWithoutLock(d, s) ==
    /\ Commit(d, s, FALSE).rpcs = <<rpcCommit>>
    /\ CommitCheck(d, s, FALSE).rpcs = <<rpcCommitCheck>>
    /\ \A path \in SetPayloads, commit \in BOOLEAN :
          Head(Config(d, s, path, "set", commit, FALSE, FALSE).rpcs).rpc = "load-configuration"
    /\ \A n \in 0..MaxHistory :
          Head(RollbackConfig(d, s, OptInt(n), FALSE, FALSE).rpcs)
            = rpcRollbackConfig(n)

\* Session s stages path without the lock, then session t commits without the lock.
StageThenCommit(d, s, t, path) ==
    LET r1 == Config(d, s, path, "set", FALSE, FALSE, FALSE)
        r2 == Commit(r1.dev, t, FALSE)
    IN  [staged |-> r1.err = NoErr, committed |-> r2.err = NoErr, dev |-> r2.dev]

\* C20: the client keeps no lock state and enforces no order of calls: Config,
\* CommitCheck, Commit and RollbackConfig send their requests whether or not the
\* session called Lock or holds the lock; and when no session holds the lock, a
\* Commit by one session activates what the other session staged in the shared
\* candidate.
C20_NoClientLockState ==
    \A s \in Sessions :
        /\ SendsWithoutLock(dev, s)
        /\ dev.lock = NoSession =>
              \A t \in Sessions \ {s}, path \in SetPayloads :
                  LET e == StageThenCommit(dev, s, t, path)
                  IN  /\ e.staged
                      /\ e.committed
                      /\ AddedBy(dev.candidate, path) \subseteq e.dev.active
                      /\ e.dev.active = dev.candidate \cup AddedBy(dev.candidate, path)

\* Session A, holding no lock, has just staged "b" and nothing is active; the
\* Commit of session B, which staged nothing since, makes "b" active.
C20_Witness ==
    /\ last.op = "Config" /\ last.sess = "A" /\ ~last.commit /\ last.err = NoErr
    /\ dev.lock = NoSession
    /\ dev.active = {} /\ dev.candidate = {"b"}
    /\ Commit(dev, "B", FALSE).err = NoErr
    /\ Commit(dev, "B", FALSE).dev.active = {"b"}

\* C21: an Unlock by a session that holds no lock changes nothing on the device
\* (lock holder, candidate, active configuration, rollback history), and a second
\* Unlock leaves the device as the first one left it.
C21_UnlockWithoutLockChangesNothing ==
    [][ /\ (last'.op = "Unlock" /\ dev.lock # last'.sess) => dev' = dev
        /\ \A s \in Sessions :
              LET once == Unlock(dev, s, FALSE)
              IN  Unlock(once.dev, s, FALSE).dev = once.dev
      ]_vars

\* An Unlock answered by the device while nobody held the lock and the candidate
\* held uncommitted changes.
C21_Witness ==
    /\ last.op = "Unlock"
    /\ last.err = "configuration database is not locked by this session"
    /\ dev.lock = NoSession
    /\ dev.candidate # dev.active
    /\ dev.history # <<>>

\* The latest call was a NewSession whose connection could not be established: no
\* request was handed to Exec.
DialFailed == last.op = "NewSession" /\ last.sent = <<>>

\* C22: when the transport connection cannot be established, NewSession returns a
\* non-nil error and no session to its caller; the process goes on and no usable
\* session exists.
C22_DialFailureIsReturned ==
    DialFailed =>
        /\ last.action = "error"
        /\ last.err # NoErr
        /\ facts[last.sess].kind = "error"
        /\ facts[last.sess].Platform = <<>>

\* The requests of a load-then-commit call: the load, then at most one commit.
LoadThenAtMostOneCommit(r, load, commit, f1) ==
    /\ r.rpcs \in {<<load>>, <<load, rpcCommit>>}
    /\ (~commit \/ f1) => r.rpcs = <<load>>

\* Every operation of session s, called in device state d with and without a
\* transport failure, hands to Exec the requests of one attempt only.
OneAttempt(d, s) ==
    /\ \A fail \in BOOLEAN :
          /\ Lock(d, s, fail).rpcs = <<rpcLock>>
          /\ Unlock(d, s, fail).rpcs = <<rpcUnlock>>
          /\ Commit(d, s, fail).rpcs = <<rpcCommit>>
          /\ CommitCheck(d, s, fail).rpcs = <<rpcCommitCheck>>
          /\ \A time \in {"23:00", "soon"} :
                CommitAt(d, s, time, fail).rpcs = <<rpcCommitAt(time)>>
          /\ \A delay \in 0..MaxDelay :
                CommitConfirm(d, s, delay, fail).rpcs = <<rpcCommitConfirm(delay)>>
          /\ \A n \in 0..(MaxHistory + 1) :
                ConfigDiff(d, s, n, fail).rpcs = <<rpcGetRollbackCompare(n)>>
          /\ \A action \in RescueActions :
                Rescue(d, s, action, fail).rpcs = <<RescueCommand(action)>>
          /\ \A cmd \in Commands, format \in CommandFormats :
                RunCommand(d, s, cmd, format, fail).rpcs = <<RunCommandFormat(cmd, format)>>
    /\ \A pf \in ConfigInputs, commit \in BOOLEAN, f1 \in BOOLEAN, f2 \in BOOLEAN :
          LoadThenAtMostOneCommit(Config(d, s, pf[1], pf[2], commit, f1, f2),
                                  ConfigCommand(pf[1], pf[2]), commit, f1)
    /\ \A option \in RollbackOptions, f1 \in BOOLEAN, f2 \in BOOLEAN :
          LoadThenAtMostOneCommit(RollbackConfig(d, s, option, f1, f2),
                                  RollbackCommand(option), TRUE, f1)

\* C23: no operation retries.  Lock, Unlock, Commit, CommitCheck, CommitAt,
\* CommitConfirm, ConfigDiff, Rescue and RunCommand send exactly one request per
\* call, Config and RollbackConfig at most two (one load, then at most one commit),
\* and neither an error reply nor a transport error makes a call send a request again.
C23_NoRetries ==
    /\ \A s \in Sessions : OneAttempt(dev, s)
    /\ last.op \in {"Lock", "Unlock", "Commit", "CommitCheck", "ConfigDiff", "Rescue"}
          => Len(last.sent) = 1
    /\ last.op \in {"Config", "RollbackConfig"}
          => /\ Len(last.sent) \in {1, 2}
             /\ Len(last.sent) = 2 => last.sent[1] # last.sent[2]

\* A Config whose load the device rejected: the load and the commit were sent once
\* each and the error came back.
C23_Witness ==
    /\ last.op = "Config"
    /\ last.commit
    /\ last.err = "syntax error"
    /\ last.sent = <<"load-configuration", "commit-configuration">>

\* The device's reply to cmd in state d carries rpc-errors, and the error err
\* returned is the message of the first of them.
ReturnsFirstError(d, s, cmd, err) ==
    LET reply == Exec(d, s, cmd, FALSE).reply
    IN  reply.errors # <<>> => err = reply.errors[1]

\* The same for the errors listed in the commit-results of a reply without rpc-error:
\* path, bad element and message of the first one.
ReturnsFirstCommitError(d, s, cmd, err) ==
    LET reply == Exec(d, s, cmd, FALSE).reply
    IN  (reply.errors = <<>> /\ reply.data.errors # <<>>)
            => err = CommitMessage(reply.data.errors[1])

\* C24: when a reply carries rpc-errors the operation returns the message of the
\* first entry and none of the later ones; Commit and CommitCheck return only the
\* first of several commit-results errors.
C24_FirstErrorOnly ==
    \A s \in Sessions :
        /\ ReturnsFirstError(dev, s, rpcLock, Lock(dev, s, FALSE).err)
        /\ ReturnsFirstError(dev, s, rpcUnlock, Unlock(dev, s, FALSE).err)
        /\ ReturnsFirstError(dev, s, rpcCommit, Commit(dev, s, FALSE).err)
        /\ ReturnsFirstError(dev, s, rpcCommitCheck, CommitCheck(dev, s, FALSE).err)
        /\ ReturnsFirstCommitError(dev, s, rpcCommit, Commit(dev, s, FALSE).err)
        /\ ReturnsFirstCommitError(dev, s, rpcCommitCheck, CommitCheck(dev, s, FALSE).err)
        /\ \A time \in {"23:00", "soon"} :
              ReturnsFirstError(dev, s, rpcCommitAt(time), CommitAt(dev, s, time, FALSE).err)
        /\ \A n \in 0..(MaxHistory + 1) :
              ReturnsFirstError(dev, s, rpcGetRollbackCompare(n), ConfigDiff(dev, s, n, FALSE).err)
        /\ \A cmd \in Commands :
              ReturnsFirstError(dev, s, rpcCommand(cmd), RunCommand(dev, s, cmd, "text", FALSE).err)
        /\ \A pf \in ConfigInputs, commit \in BOOLEAN :
              ReturnsFirstError(dev, s, ConfigCommand(pf[1], pf[2]),
                                Config(dev, s, pf[1], pf[2], commit, FALSE, FALSE).err)
        /\ \A option \in RollbackOptions :
              ReturnsFirstError(dev, s, RollbackCommand(option),
                                RollbackConfig(dev, s, option, FALSE, FALSE).err)

\* C25: the facts of an established session (Hostname, RoutingEngines, every element
\* of Platform) are changed by no operation of the session facade.
C25_FactsImmutable ==
    [][ \A s \in Sessions : facts[s].kind = "session" => facts'[s] = facts[s] ]_vars

\* A session has rebooted the device after another operation changed the active
\* configuration, and its facts are those NewSession gathered.
C25_Witness ==
    /\ last.op = "Reboot"
    /\ last.err = NoErr
    /\ dev.history # <<>>
    /\ facts[last.sess] = NewSession(InitDev, last.sess, FALSE, FALSE)
    /\ facts[last.sess].Platform = <<[Model |-> "SRX240H2", Version |-> ReleaseVersion]>>

\* The request GetConfig hands to Exec for the section of the latest call.
LastGetConfigRequest ==
    GetConfig(dev, last.sess, last.action, last.option.s, FALSE).rpcs[1]

\* C26: GetConfig("full", format) sends exactly one well-formed get-configuration
\* request without a section filter and returns the entire configuration;
\* GetConfig(section, format) for another section sends exactly one request,
\* filtered to that section only.
C26_GetConfigRequest ==
    last.op = "GetConfig" =>
        /\ last.sent = <<"get-configuration">>
        /\ WellFormedXML(GetConfigText(last.action))
        /\ IF last.action = "full"
           THEN /\ LastGetConfigRequest.text = <<>>
                /\ last.err = NoErr
                /\ dev.candidate \subseteq last.out
           ELSE LastGetConfigRequest.text = <<last.action>>

\* The call r of session s in state d loads with the request load; when the device
\* rejects the load, no commit follows, the load's error is returned and the active
\* configuration stays as it was.
NoCommitAfterRejectedLoad(d, s, load, r) ==
    LET reply == Exec(d, s, load, FALSE).reply
    IN  /\ Len(r.rpcs) = 2 => reply.errors = <<>>
        /\ reply.errors # <<>>
              => /\ r.rpcs = <<load>>
                 /\ r.err = reply.errors[1]
                 /\ r.dev.active = d.active

\* C27: within one call of Config(commit=true), LoadConfig(commit=true) or
\* RollbackConfig the commit is sent only after a load whose reply reported no
\* error; a rejected load returns its error, no commit is sent and nothing that was
\* staged before becomes active.
C27_CommitOnlyAfterAcceptedLoad ==
    \A s \in Sessions :
        /\ \A pf \in ConfigInputs :
              NoCommitAfterRejectedLoad(dev, s, ConfigCommand(pf[1], pf[2]),
                                        Config(dev, s, pf[1], pf[2], TRUE, FALSE, FALSE))
        /\ \A option \in RollbackOptions :
              NoCommitAfterRejectedLoad(dev, s, RollbackCommand(option),
                                        RollbackConfig(dev, s, option, FALSE, FALSE))

\* The elements of a sequence.
Range(seq) == {seq[i] : i \in 1..Len(seq)}

\* The result of the NAT view of an established session s is the device's table:
\* Count counts the entries returned, and the entries are the rules of one node.
NatViewShowsRules(s, view) ==
    LET r == View(dev, facts[s], s, view, <<>>, FALSE)
    IN  r.err = NoErr =>
          /\ r.nat.Count = Len(r.nat.Entries)
          /\ \A i \in 1..Len(r.nat.Entries) : r.nat.Entries[i].Name \in Range(dev.nat)
          /\ r.nat.Entries = NatEntries(dev, 0)

\* C28: for the staticnat and sourcenat views, Count equals the number of elements
\* of Entries and every element is a rule the device reported: of the 2k entries of
\* a clustered reply exactly the first k are kept, of the k entries of another reply
\* exactly those k.
C28_NatCountMatchesEntries ==
    \A s \in Sessions :
        facts[s].kind = "session" => \A view \in NatViews : NatViewShowsRules(s, view)


\* ModifyVariable when every goroutine has ended before the calling goroutine
\* reads what it wrote.
Awaited(args) ==
    MainRequest(MainContent(MainUnmarshal(
        RunGet(RunExisting(RunObjectID(
            RunVariableID(RunMoid(RunDeviceID(Spawn(args))))))))))

Outcome(sp) == [sent |-> sp.sent, ret |-> sp.ret]

\* C29: when ModifyVariable returns, the three lookups it started have ended
\* and what it sent and returned is what it sends and returns when every
\* lookup completes before its result is read, whatever the scheduling.
C29_ModifyVariableRaceFree ==
    (space.op = "ModifyVariable" /\ space.pc = "done") =>
        /\ space.g1 = "done" /\ space.g2 = "done" /\ space.g3 = "done"
        /\ Outcome(space) = Outcome(Awaited(space.args))

\* C30: the request of AddDevice uses the IP address template when the host
\* matches the IPv4 pattern and the host name template otherwise.
C30_AddDeviceTemplateByHostKind ==
    space.op = "AddDevice" =>
        /\ Len(space.sent) = 1
        /\ space.sent[1].Body.host = space.args.host
        /\ space.sent[1].Body.target =
              IF ipRegexMatchString(space.args.host)
              THEN "ipAddressDiscoveryTarget"
              ELSE "hostNameDiscoveryTarget"

====
